---- MODULE Spec2Model ----
(***************************************************************************)
(* Model of the FHIRPath evaluation service (atomic-ehr/fhirpath-server):  *)
(* the request handlers of FHIRPathService, the context-aware evaluation   *)
(* orchestrator runEvaluation, and the process-wide trace collector.       *)
(*                                                                         *)
(* A request runs as a sequence of atomic sections separated by its        *)
(* awaits (body read, version wait, analyze, evaluate).  The external      *)
(* engine is an environment: each pending call returns or throws, and a    *)
(* pending evaluate may call recordTrace through the trace hook.           *)
(***************************************************************************)
EXTENDS Integers, Sequences, FiniteSets, TLC

\* ------------------------------------------------------------------ bounds
NumReq == 2        \* requests that may be in flight together
MaxItems == 2      \* longest sequence the context expression yields
MaxEmit == 2       \* trace emissions per request
MaxClock == 1      \* largest value of the wall clock
MaxOps == 5        \* collector operations in the stand-alone collector run
MaxParams == 3     \* parameters of an envelope in the stand-alone function run
MaxExts == 2       \* extensions of a resource parameter in the stand-alone function run
MaxArgs == 2       \* declared arguments of a function call in a tree
MaxUnits == 2      \* pieces (characters or escapes) of a spelled-out variable name

Reqs == 1..NumReq

\* ------------------------------------------------------------- JS values
\* Every JavaScript value is a record tagged by t.
Undefined == [t |-> "undefined"]
Null == [t |-> "null"]
Str(s) == [t |-> "string", s |-> s]
Bool(b) == [t |-> "boolean", b |-> b]
Num(n) == [t |-> "number", n |-> n]
\* The number n + tenths/10, which is not whole (n >= 0, tenths in 1..9).
Frac(n, tenths) == [t |-> "number", n |-> n, tenths |-> tenths]
NaN == [t |-> "number", nan |-> TRUE]
Arr(items) == [t |-> "array", items |-> items]

Nullish(v) == v.t \in {"undefined", "null"}

Truthy(v) ==
  CASE v.t \in {"undefined", "null"} -> FALSE
    [] v.t = "string" -> v.s # ""
    [] v.t = "boolean" -> v.b
    [] v.t = "number" -> "nan" \notin DOMAIN v /\ ("tenths" \in DOMAIN v \/ v.n # 0)
    [] OTHER -> TRUE

IsString(v) == v.t = "string"

\* A thrown value: an Error object with a message, or any other value.
Err(msg) == [isError |-> TRUE, message |-> msg]
NonError == [isError |-> FALSE, message |-> ""]

\* ------------------------------------------------------ trace collector
\* Mutant: two frames are pushed.
beginTraceCollectionTwice(stack) == Append(Append(stack, <<>>), <<>>)

\* collectors.push([])
beginTraceCollection(stack) == Append(stack, <<>>)

\* Mutant: the frame is returned but left on the stack.
endTraceCollectionKeep(stack) ==
  IF Len(stack) = 0
    THEN [stack |-> stack, frame |-> <<>>]
    ELSE [stack |-> stack, frame |-> stack[Len(stack)]]

\* Mutant: shift() instead of pop(): the oldest frame is removed and returned.
endTraceCollectionFifo(stack) ==
  IF Len(stack) = 0
    THEN [stack |-> stack, frame |-> <<>>]
    ELSE [stack |-> Tail(stack), frame |-> Head(stack)]

\* collectors.pop() ?? []  : the new stack and the returned frame
endTraceCollection(stack) ==
  IF Len(stack) = 0
    THEN [stack |-> stack, frame |-> <<>>]
    ELSE [stack |-> SubSeq(stack, 1, Len(stack) - 1), frame |-> stack[Len(stack)]]

\* One TraceEntry; by is a history tag naming the evaluation that emitted it.
TraceEntry(label, values, timestamp, by) ==
  [label |-> label, values |-> values, timestamp |-> timestamp, by |-> by]

\* Mutant: unshift() instead of push(): the entry goes to the front of the frame.
recordTraceFront(stack, entry) ==
  IF Len(stack) = 0
    THEN stack
    ELSE [stack EXCEPT ![Len(stack)] = <<entry>> \o @]

\* collector = collectors[length - 1]; if (!collector) return; collector.push(entry)
recordTrace(stack, entry) ==
  IF Len(stack) = 0
    THEN stack
    ELSE [stack EXCEPT ![Len(stack)] = Append(@, entry)]

\* ------------------------------------------------- request envelope model
JSON_VALUE_EXTENSION_URL == "http://fhir.forms-lab.com/StructureDefinition/json-value"
RESOURCE_PATH_EXTENSION_URL == "http://fhir.forms-lab.com/StructureDefinition/resource-path"
XML_VALUE_EXTENSION_URL == "http://fhir.forms-lab.com/StructureDefinition/xml-value"

\* The keys of PARAMETER_VALUE_KEYS that the modelled parameters carry, in its order.
PARAMETER_VALUE_KEYS ==
  <<"valueString", "valueBoolean", "valueInteger", "valueDecimal", "valueDate",
    "valueTime", "valueDateTime", "valueCode", "resource", "part", "extension">>

\* A ParametersParameter: every field present, Undefined when not given.
Param(name) ==
  [t |-> "object", name |-> name, valueString |-> Undefined, valueBoolean |-> Undefined,
   valueInteger |-> Undefined, valueDecimal |-> Undefined, valueDate |-> Undefined,
   valueTime |-> Undefined, valueDateTime |-> Undefined,
   valueCode |-> Undefined, resource |-> Undefined, part |-> Undefined,
   extension |-> Undefined]

Ext(url, valueString) == [url |-> url, valueString |-> valueString]

\* A resource document: its resourceType and the shape of its meta.profile.
Doc(resourceType, profile) ==
  [t |-> "object", resourceType |-> resourceType, profile |-> profile]

getParameterPrimaryValue(param) ==
  LET present == SelectSeq(PARAMETER_VALUE_KEYS, LAMBDA k : ~Nullish(param[k]))
  IN IF present = <<>> THEN Undefined ELSE param[present[1]]

\* additional[name] = additional[name] ?? []; additional[name].push(parameter)
\* The map is a sequence of <<name, parameters>> groups in key insertion order.
pushAdditionalInput(additional, name, parameter) ==
  IF \E i \in 1..Len(additional) : additional[i][1] = name
    THEN [i \in 1..Len(additional) |->
            IF additional[i][1] = name
              THEN <<name, Append(additional[i][2], parameter)>>
              ELSE additional[i]]
    ELSE Append(additional, <<name, <<parameter>> >>)

\* JSON texts a json-value extension may carry, and what JSON.parse makes of them.
JsonPatient == "{\"resourceType\":\"Patient\"}"
JsonBroken == "{\"resourceType\":"
JsonNull == "null"

PatientDoc == Doc(Str("Patient"), Undefined)

JSONparse(text) ==
  CASE text = JsonPatient -> [ok |-> TRUE, value |-> PatientDoc, error |-> NonError]
    [] text = JsonNull -> [ok |-> TRUE, value |-> Null, error |-> NonError]
    [] OTHER -> [ok |-> FALSE, value |-> Undefined,
                 error |-> Err("Unexpected end of JSON input")]

\* extensions.find((ext) => ext.url === url)?.valueString
FindExtensionValue(extensions, url) ==
  LET hits == SelectSeq(extensions, LAMBDA e : e.url = url)
  IN IF hits = <<>> THEN Undefined ELSE hits[1].valueString

Descriptor(source, parameter, contentType, serializedContent, parseError) ==
  [t |-> "object", source |-> source, parameter |-> parameter,
   contentType |-> contentType, serializedContent |-> serializedContent,
   parseError |-> parseError]

\* Mutant: a JSON annotation is looked at before the embedded document.
parseResourceParameterJsonFirst(parameter) ==
  LET extensions == IF Nullish(parameter.extension) THEN <<>> ELSE parameter.extension.items
      jsonExt == FindExtensionValue(extensions, JSON_VALUE_EXTENSION_URL)
      jsonValue == IF IsString(jsonExt) THEN jsonExt ELSE Undefined
      xmlExt == FindExtensionValue(extensions, XML_VALUE_EXTENSION_URL)
      xmlValue == IF IsString(xmlExt) THEN xmlExt ELSE Undefined
  IN IF Truthy(jsonValue)
       THEN LET parsed == JSONparse(jsonValue.s)
            IN [resource |-> parsed.value,
                descriptor |-> Descriptor("json-extension", parameter, Str("json"), jsonValue,
                                          IF parsed.ok THEN Undefined
                                          ELSE Str(parsed.error.message))]
     ELSE IF Truthy(parameter.resource)
       THEN [resource |-> parameter.resource,
             descriptor |-> Descriptor("inline-resource", parameter, Undefined, Undefined, Undefined)]
     ELSE IF Truthy(xmlValue)
       THEN [resource |-> Undefined,
             descriptor |-> Descriptor("xml-extension", parameter, Str("xml"), xmlValue,
                                       Str("XML resource inputs are not supported yet"))]
     ELSE [resource |-> Undefined,
           descriptor |-> Descriptor("missing", parameter, Undefined, Undefined, Undefined)]

parseResourceParameter(parameter) ==
  LET extensions == IF Nullish(parameter.extension) THEN <<>> ELSE parameter.extension.items
      jsonExt == FindExtensionValue(extensions, JSON_VALUE_EXTENSION_URL)
      jsonValue == IF IsString(jsonExt) THEN jsonExt ELSE Undefined
      xmlExt == FindExtensionValue(extensions, XML_VALUE_EXTENSION_URL)
      xmlValue == IF IsString(xmlExt) THEN xmlExt ELSE Undefined
  IN IF Truthy(parameter.resource)
       THEN [resource |-> parameter.resource,
             descriptor |-> Descriptor("inline-resource", parameter, Undefined, Undefined, Undefined)]
     ELSE IF Truthy(jsonValue)
       THEN LET parsed == JSONparse(jsonValue.s)
            IN IF parsed.ok
                 THEN [resource |-> parsed.value,
                       descriptor |-> Descriptor("json-extension", parameter, Str("json"), jsonValue, Undefined)]
                 ELSE [resource |-> Undefined,
                       descriptor |-> Descriptor("json-extension", parameter, Str("json"), jsonValue,
                                                 IF parsed.error.isError
                                                   THEN Str(parsed.error.message)
                                                   ELSE Str("Invalid JSON payload"))]
     ELSE IF Truthy(xmlValue)
       THEN [resource |-> Undefined,
             descriptor |-> Descriptor("xml-extension", parameter, Str("xml"), xmlValue,
                                       Str("XML resource inputs are not supported yet"))]
     ELSE [resource |-> Undefined,
           descriptor |-> Descriptor("missing", parameter, Undefined, Undefined, Undefined)]

\* const extracted = { additionalInputs: {} }
EmptyExtraction ==
  [expressionParameter |-> Undefined, expression |-> Undefined,
   contextParameter |-> Undefined, contextExpression |-> Undefined,
   resourceDescriptor |-> Undefined, resource |-> Undefined,
   variablesParameter |-> Undefined, variableParts |-> Undefined,
   terminologyServer |-> Undefined, expectedReturnType |-> Undefined,
   validate |-> Undefined, additionalInputs |-> <<>>]

\* typeof parameter.valueString === 'string' ? it : (typeof primary === 'string' ? primary : keep)
StringOf(parameter, keep) ==
  IF IsString(parameter.valueString) THEN parameter.valueString
  ELSE IF IsString(getParameterPrimaryValue(parameter)) THEN getParameterPrimaryValue(parameter)
  ELSE keep

\* One iteration of the switch over parameter.name.
ExtractOne(extracted, parameter) ==
  LET primary == getParameterPrimaryValue(parameter)
      pushed == pushAdditionalInput(extracted.additionalInputs, parameter.name, parameter)
  IN CASE parameter.name = "expression" ->
            [extracted EXCEPT !.expressionParameter = parameter,
                              !.expression = StringOf(parameter, @)]
       [] parameter.name = "context" ->
            [extracted EXCEPT !.contextParameter = parameter,
                              !.contextExpression = StringOf(parameter, @)]
       [] parameter.name = "resource" ->
            LET parsed == parseResourceParameter(parameter)
            IN [extracted EXCEPT !.resourceDescriptor = parsed.descriptor,
                                 !.resource = IF Truthy(parsed.resource) THEN parsed.resource ELSE @]
       [] parameter.name = "variables" ->
            [extracted EXCEPT !.variablesParameter = parameter,
                              !.variableParts = IF parameter.part.t = "array"
                                                  THEN parameter.part ELSE Arr(<<>>)]
       [] parameter.name = "terminologyserver" ->
            [extracted EXCEPT !.terminologyServer = IF IsString(primary) THEN primary ELSE @,
                              !.additionalInputs = pushed]
       [] parameter.name = "expectedReturnType" ->
            [extracted EXCEPT !.expectedReturnType = IF IsString(primary) THEN primary ELSE @,
                              !.additionalInputs = pushed]
       [] parameter.name = "validate" ->
            [extracted EXCEPT !.validate =
                                IF parameter.valueBoolean.t = "boolean" THEN parameter.valueBoolean
                                ELSE IF IsString(primary) THEN Bool(primary.s \in {"true", "TRUE", "True"})
                                ELSE @,
                              !.additionalInputs = pushed]
       [] OTHER -> [extracted EXCEPT !.additionalInputs = pushed]

\* Names every object inherits from Object.prototype: additional[name] is then
\* a truthy non-array and additional[name].push is not a function.
InheritedNames == {"constructor", "toString", "valueOf", "hasOwnProperty"}

\* The cases of the switch that call pushAdditionalInput.
PushesAdditional(parameter) ==
  parameter.name \notin {"expression", "context", "resource", "variables"}

Ok(value) == [ok |-> TRUE, value |-> value, error |-> NonError]
Throw(error) == [ok |-> FALSE, value |-> Undefined, error |-> error]

RECURSIVE ExtractFrom(_, _)
ExtractFrom(extracted, parameters) ==
  IF parameters = <<>> THEN Ok(extracted)
  ELSE IF Nullish(Head(parameters))
    THEN Throw(Err("null is not an object (evaluating 'parameter.name')"))
  ELSE IF PushesAdditional(Head(parameters)) /\ Head(parameters).name \in InheritedNames
    THEN Throw(Err("additional[name].push is not a function"))
  ELSE ExtractFrom(ExtractOne(extracted, Head(parameters)), Tail(parameters))

\* parameters.parameter is Undefined, an array of parameters, or some other value.
extractEvaluationParameters(parameters) ==
  IF ~Truthy(parameters.parameter) THEN Ok(EmptyExtraction)
  ELSE IF parameters.parameter.t # "array"
    THEN Throw(Err("parameters.parameter is not iterable"))
  ELSE ExtractFrom(EmptyExtraction, parameters.parameter.items)

\* ---------------------------------------------------------------- responses
createOperationOutcome(severity, code, message) ==
  [resourceType |-> "OperationOutcome",
   issue |-> <<[severity |-> severity, code |-> code, diagnostics |-> message]>>]

createFhirResponse(data, status) == [status |-> status, body |-> data]

\* status defaults to 400
createErrorResponse(severity, code, message) ==
  createFhirResponse(createOperationOutcome(severity, code, message), 400)

\* The body of a request: whether request.text() resolves, the kind of text, and
\* for JSON text the value JSON.parse returns.
Body(read, text, data) == [read |-> read, text |-> text, data |-> data]

parseJsonBody(body) ==
  CASE body.read = "rejects" -> Throw(Err("Invalid JSON: " \o "body stream failed"))
    [] body.text = "blank" -> Throw(Err("Invalid JSON: " \o "Request body is empty"))
    [] body.text = "malformed" -> Throw(Err("Invalid JSON: " \o "Unexpected end of JSON input"))
    [] OTHER -> Ok(body.data)

validateParametersResource(data) ==
  IF ~Truthy(data) \/ data.t \notin {"object", "array"}
    THEN Throw(Err("Request body must be a JSON object"))
  ELSE IF data.t = "array" \/ data.resourceType # Str("Parameters")
    THEN Throw(Err("Expected FHIR Parameters resource"))
  ELSE Ok(data)

parseRequest(body) ==
  LET parsedBody == parseJsonBody(body)
  IN IF ~parsedBody.ok THEN parsedBody
     ELSE LET inputParameters == validateParametersResource(parsedBody.value)
          IN IF ~inputParameters.ok THEN inputParameters
             ELSE extractEvaluationParameters(inputParameters.value)

NoResponse == [status |-> 0, body |-> [resourceType |-> "none"]]

\* Mutant: the resource is checked before the expression.
validateExtractionResourceFirst(extraction) ==
  IF ~Truthy(extraction.resourceDescriptor) \/ extraction.resourceDescriptor.source = "missing"
    THEN createErrorResponse("error", "required", "Missing required parameter: resource")
  ELSE IF ~Truthy(extraction.expression)
    THEN createErrorResponse("error", "required", "Missing required parameter: expression")
  ELSE IF ~Truthy(extraction.resource)
    THEN createErrorResponse("error", "invalid",
           IF Truthy(extraction.resourceDescriptor.parseError)
             THEN extraction.resourceDescriptor.parseError.s
             ELSE "Resource parameter could not be parsed")
  ELSE NoResponse

\* Mutant: the resolver's message is replaced by the generic one.
validateExtractionGenericMessage(extraction) ==
  IF ~Truthy(extraction.expression)
    THEN createErrorResponse("error", "required", "Missing required parameter: expression")
  ELSE IF ~Truthy(extraction.resourceDescriptor) \/ extraction.resourceDescriptor.source = "missing"
    THEN createErrorResponse("error", "required", "Missing required parameter: resource")
  ELSE IF ~Truthy(extraction.resource)
    THEN createErrorResponse("error", "invalid", "Resource parameter could not be parsed")
  ELSE NoResponse

\* The validation error response, or NoResponse for null.
validateExtraction(extraction) ==
  IF ~Truthy(extraction.expression)
    THEN createErrorResponse("error", "required", "Missing required parameter: expression")
  ELSE IF ~Truthy(extraction.resourceDescriptor) \/ extraction.resourceDescriptor.source = "missing"
    THEN createErrorResponse("error", "required", "Missing required parameter: resource")
  ELSE IF ~Truthy(extraction.resource)
    THEN createErrorResponse("error", "invalid",
           IF Truthy(extraction.resourceDescriptor.parseError)
             THEN extraction.resourceDescriptor.parseError.s
             ELSE "Resource parameter could not be parsed")
  ELSE NoResponse

\* Mutant: the catch block drops the message of the error.
catchBlockNoMessage(route, error) ==
  createErrorResponse("error", "exception",
    (IF route = "/" THEN "Auto-detection failed: " ELSE "Evaluation failed: ") \o "Unknown error")

\* The catch block of a handler: error instanceof Error ? error.message : 'Unknown error'
catchBlock(route, error) ==
  LET errorMessage == IF error.isError THEN error.message ELSE "Unknown error"
  IN createErrorResponse("error", "exception",
       (IF route = "/" THEN "Auto-detection failed: " ELSE "Evaluation failed: ") \o errorMessage)

\* -------------------------------------------------------- variable bindings
\* a || b || c : the first truthy operand, else the last one
OrChain(values) ==
  LET truthy == SelectSeq(values, LAMBDA v : Truthy(v))
  IN IF truthy = <<>> THEN values[Len(values)] ELSE truthy[1]

\* variables[name] = varParam.valueString || varParam.valueBoolean || ... || varParam.resource
BindingValue(varParam) ==
  OrChain(<<varParam.valueString, varParam.valueBoolean, varParam.valueInteger,
            varParam.valueDecimal, varParam.valueDate, varParam.valueTime,
            varParam.valueDateTime, varParam.resource>>)

RECURSIVE BindAll(_, _)
BindAll(variables, parts) ==
  IF parts = <<>> THEN Ok(variables)
  ELSE IF Nullish(Head(parts))
    THEN Throw(Err("null is not an object (evaluating 'varParam.name')"))
  ELSE LET name == Head(parts).name
           value == BindingValue(Head(parts))
       IN BindAll([n \in (DOMAIN variables) \cup {name} |->
                     IF n = name THEN value ELSE variables[n]], Tail(parts))

\* ------------------------------------------------- variable-name unescaping
\* A name spelled out: a sequence of characters, each a one-character string;
\* the backtick and the characters produced from an escape are named
\* (BACKTICK, CR, LF, TAB, FF) or numbered.
Backslash == "\\"
Backtick == "BACKTICK"
Quote == "'"

\* \d
IsDigit(c) == c \in {"0", "1", "2", "3", "4", "5", "6", "7", "8", "9"}

\* The value of one hexadecimal digit, as Number('0x' + ...) reads it.
HexDigit(c) ==
  CASE c = "0" -> 0 [] c = "1" -> 1 [] c = "2" -> 2 [] c = "3" -> 3 [] c = "4" -> 4
    [] c = "5" -> 5 [] c = "6" -> 6 [] c = "7" -> 7 [] c = "8" -> 8 [] c = "9" -> 9
    [] c \in {"a", "A"} -> 10 [] c \in {"b", "B"} -> 11 [] c \in {"c", "C"} -> 12
    [] c \in {"d", "D"} -> 13 [] c \in {"e", "E"} -> 14 [] c \in {"f", "F"} -> 15

\* Number('0x' + digits)
HexNumber(digits) ==
  ((HexDigit(digits[1]) * 16 + HexDigit(digits[2])) * 16 + HexDigit(digits[3])) * 16
    + HexDigit(digits[4])

\* String.fromCharCode(n)
FromCharCode(n) == IF n = 65 THEN "A" ELSE "U+" \o ToString(n)

\* . in the pattern: any character but a line terminator
IsLineTerminator(c) == c \in {"LF", "CR"}

\* The replacement callback: match is the whole match, submatch the group.
Replacement(match, submatch) ==
  CASE match = <<Backslash, "r">> -> "CR"
    [] match = <<Backslash, "n">> -> "LF"
    [] match = <<Backslash, "t">> -> "TAB"
    [] match = <<Backslash, "f">> -> "FF"
    [] OTHER -> IF Len(submatch) > 1 THEN FromCharCode(HexNumber(Tail(submatch)))
                ELSE submatch[1]

\* The length of the match of /\\(u\d{4}|.)/ at the head of chars; 0 for none.
MatchLength(chars) ==
  IF Len(chars) < 2 \/ chars[1] # Backslash THEN 0
  ELSE IF /\ Len(chars) >= 6
          /\ chars[2] = "u"
          /\ \A i \in 3..6 : IsDigit(chars[i])
    THEN 6
  ELSE IF IsLineTerminator(chars[2]) THEN 0
  ELSE 2

\* chars.replace(/\\(u\d{4}|.)/g, callback)
RECURSIVE ReplaceEscapes(_)
ReplaceEscapes(chars) ==
  IF chars = <<>> THEN <<>>
  ELSE LET n == MatchLength(chars)
       IN IF n = 0 THEN <<Head(chars)>> \o ReplaceEscapes(Tail(chars))
          ELSE <<Replacement(SubSeq(chars, 1, n), SubSeq(chars, 2, n))>>
                 \o ReplaceEscapes(SubSeq(chars, n + 1, Len(chars)))

\* name.startsWith(d) && name.endsWith(d)
Delimited(chars, d) == chars # <<>> /\ chars[1] = d /\ chars[Len(chars)] = d

\* name.slice(1, -1)
SliceInner(chars) == SubSeq(chars, 2, Len(chars) - 1)

\* The two name-handling branches of extractVariables, one after the other.
normalizeName(chars) ==
  LET afterBacktick == IF Delimited(chars, Backtick)
                       THEN ReplaceEscapes(SliceInner(chars)) ELSE chars
  IN IF Delimited(afterBacktick, Quote)
     THEN ReplaceEscapes(SliceInner(afterBacktick)) ELSE afterBacktick

\* Names held as one string carry no delimiter and are used verbatim; spelled-out
\* names go through normalizeName.
extractVariables(variableParts) ==
  IF ~Truthy(variableParts) \/ variableParts.t # "array" THEN Ok(<<>>)
  ELSE BindAll(<<>>, variableParts.items)

\* ------------------------------------------------------- version resolution
ProfileR5 == "http://hl7.org/fhir/r5/StructureDefinition/Patient"

\* The version a profile URL names through includes('/r4/'), '/r5/', '/r6/'.
ProfileVersion(profile) == IF profile = ProfileR5 THEN "r5" ELSE "none"

\* for (const profile of resource.meta.profile) ... ; "none" stands for null
RECURSIVE ScanProfiles(_)
ScanProfiles(profiles) ==
  IF profiles = <<>> THEN Ok(Str("none"))
  ELSE IF ~IsString(Head(profiles))
    THEN Throw(Err("profile.includes is not a function"))
  ELSE IF ProfileVersion(Head(profiles).s) # "none"
    THEN Ok(Str(ProfileVersion(Head(profiles).s)))
  ELSE ScanProfiles(Tail(profiles))

\* pathname "/" never matches /(r[456])/, so only the resource decides.
extractFhirVersion(resource) ==
  IF ~Truthy(resource.profile) THEN Ok(Str("none"))
  ELSE IF resource.profile.t # "array"
    THEN Throw(Err("resource.meta.profile is not iterable"))
  ELSE ScanProfiles(resource.profile.items)

\* extractFhirVersion(...) || detectVersionFromResource(...) || 'r4'
DetectVersion(resource) ==
  LET fromPath == extractFhirVersion(resource)
  IN IF ~fromPath.ok THEN fromPath
     ELSE IF fromPath.value.s # "none" THEN fromPath
     ELSE Ok(Str("r4"))

\* What awaiting waitForVersion can do: the stored initialization promise
\* resolves or rejects, or there is neither promise nor provider.
WaitOutcomes == {"resolved", "rejected", "notConfigured"}

waitForVersion(outcome, version) ==
  CASE outcome = "resolved" -> Ok(Undefined)
    [] outcome = "rejected" -> Throw(Err("model provider initialization failed"))
    [] OTHER -> Throw(Err("FHIR version " \o version \o " is not configured"))

\* initialize() stores the provider before the promise, so a version that
\* could be waited for has a provider.
getModelProvider(outcome) == IF outcome = "resolved" THEN Str("provider") ELSE Undefined

\* --------------------------------------------------------- external engine
\* A boxed value: { value, typeInfo: { name, type, modelContext: { path } } }
BoxedAs(value, name, type, path) ==
  [t |-> "object", value |-> value,
   typeInfo |-> [name |-> name, type |-> type, path |-> path]]

Boxed(value, name, path) == BoxedAs(value, name, Undefined, path)

\* A boxed value without typeInfo: { value }
Untyped(value) == [t |-> "object", value |-> value]

\* Mutant: the boxed item itself is taken as the context value.
unwrapBoxedValueNot(item) == item

unwrapBoxedValue(item) ==
  IF Truthy(item) /\ item.t = "object" /\ "value" \in DOMAIN item
    THEN item.value
    ELSE item

ContextItemKinds ==
  { Boxed(Str("name0"), Str("HumanName"), Str("Patient.name")),
    Boxed(Str("name1"), Str("HumanName"), Str("Patient.name[0]")),
    Str("raw") }

SeqsUpTo(S, n) == UNION { [1..k -> S] : k \in 0..n }

\* What evaluate(contextExpression) may return.
ContextItemSeqs == SeqsUpTo(ContextItemKinds, MaxItems)

\* What evaluate(expression) may return.
ExpressionResults ==
  { <<>>,
    <<Boxed(Str("female"), Str("String"), Undefined), Boxed(Str("F"), Str("code"), Undefined)>> }

\* Expression trees analyze may hand over. A node carries every member the
\* transformer reads; a member the node does not have is undefined.
AstNode(type) ==
  [t |-> "object", type |-> type, operator |-> Undefined, left |-> Undefined,
   right |-> Undefined, name |-> Undefined, value |-> Undefined,
   valueType |-> Undefined, arguments |-> Undefined, typeInfo |-> Undefined]

Identifier(name) == [AstNode("Identifier") EXCEPT !.name = Str(name)]
Literal(value) == [AstNode("Literal") EXCEPT !.value = Str(value)]
Binary(operator, left, right) ==
  [AstNode("Binary") EXCEPT !.operator = Str(operator), !.left = left, !.right = right]
Function(name, arguments) ==
  [AstNode("Function") EXCEPT !.name = Identifier(name), !.arguments = Arr(arguments)]

\* typeInfo of a node: { name, type, singleton }
AstTypeInfo(name, singleton) ==
  [t |-> "object", name |-> name, type |-> Undefined, singleton |-> singleton]

AstIdentifier == Identifier("Patient")
AstDotNoRight == Binary(".", AstIdentifier, Undefined)

\* An AnalysisResult: the tree, the diagnostics, and the inferred type if any.
Analysis(ast, diagnostics, type) == [ast |-> ast, diagnostics |-> diagnostics, type |-> type]

TypeString == [t |-> "object", name |-> Str("String")]

AnalysisResults ==
  { Analysis(AstIdentifier, <<>>, Undefined),
    Analysis(AstIdentifier, <<"unknown element">>, TypeString),
    Analysis(AstDotNoRight, <<>>, Undefined) }

NoAnalysis == Analysis(Undefined, <<>>, Undefined)

\* Values the engine may throw.
EngineThrows == { Err("engine failure"), NonError }

TraceLabels == {"x", "(unnamed)"}
TraceValues == { <<Boxed(Str("y"), Str("string"), Undefined)>> }

\* ------------------------------------------------------------ context labels
PathWithIndex == "Patient.name[0]"

\* modelPath.includes('[') over the structural paths the engine attaches
IncludesBracket(path) == path = PathWithIndex

\* contextExpression.trim() over the modelled expressions
Trim(text) == IF text = " " THEN "" ELSE text

Index(index) == "[" \o ToString(index) \o "]"

\* Mutant: the index is appended to every structural path.
deriveContextLabelAlwaysIndex(resource, contextExpression, index, contextItem) ==
  IF ~Truthy(contextExpression) THEN Undefined
  ELSE LET modelPath == IF contextItem.t = "object" /\ "typeInfo" \in DOMAIN contextItem
                          THEN contextItem.typeInfo.path ELSE Undefined
           resourceType == IF Nullish(resource.resourceType)
                             THEN "Resource" ELSE resource.resourceType.s
           normalized == Trim(contextExpression.s)
       IN IF Truthy(modelPath) THEN Str(modelPath.s \o Index(index))
          ELSE IF normalized = "" THEN Str(resourceType \o Index(index))
          ELSE Str(resourceType \o "." \o normalized \o Index(index))

deriveContextLabel(resource, contextExpression, index, contextItem) ==
  IF ~Truthy(contextExpression) THEN Undefined
  ELSE LET modelPath == IF contextItem.t = "object" /\ "typeInfo" \in DOMAIN contextItem
                          THEN contextItem.typeInfo.path ELSE Undefined
           resourceType == IF Nullish(resource.resourceType)
                             THEN "Resource" ELSE resource.resourceType.s
           normalized == Trim(contextExpression.s)
       IN IF Truthy(modelPath)
            THEN Str(IF IncludesBracket(modelPath.s) THEN modelPath.s
                     ELSE modelPath.s \o Index(index))
          ELSE IF normalized = ""
            THEN Str(resourceType \o Index(index))
          ELSE Str(resourceType \o "." \o normalized \o Index(index))

\* ---------------------------------------------------------- response assembly
\* name.toLowerCase() over the modelled type names
LowerCase(name) ==
  CASE name = "HumanName" -> "humanname"
    [] name = "String" -> "string"
    [] name = "Code" -> "code"
    [] name = "Boolean" -> "boolean"
    [] name = "Integer" -> "integer"
    [] name = "Decimal" -> "decimal"
    [] name = "dateTime" -> "datetime"
    [] name = "positiveInt" -> "positiveint"
    [] name = "unsignedInt" -> "unsignedint"
    [] name = "System.String" -> "system.string"
    [] name = "Any" -> "any"
    [] name = "BackboneElement" -> "backboneelement"
    [] OTHER -> name

\* item.typeInfo, with every member undefined when the item has none
TypeInfoOf(item) ==
  IF item.t = "object" /\ "typeInfo" \in DOMAIN item THEN item.typeInfo
  ELSE [name |-> Undefined, type |-> Undefined, path |-> Undefined]

\* item.value
ValueOf(item) ==
  IF item.t = "object" /\ "value" \in DOMAIN item THEN item.value ELSE Undefined

getResultPartName(item) ==
  IF IsString(TypeInfoOf(item).name) /\ Truthy(TypeInfoOf(item).name)
    THEN LowerCase(TypeInfoOf(item).name.s)
  ELSE IF IsString(TypeInfoOf(item).type) /\ Truthy(TypeInfoOf(item).type)
    THEN LowerCase(TypeInfoOf(item).type.s)
  ELSE LET value == ValueOf(item)
       IN CASE value.t = "array" -> "collection"
            [] Nullish(value) -> "null"
            [] OTHER -> value.t

\* ------------------------------------------------------------ value encoder
\* A parameter being encoded: its name, the value fields assigned so far in
\* assignment order, and its extension (undefined or an array).
Part(name) == [name |-> name, fields |-> <<>>, extension |-> Undefined]

\* param[field] = value
SetField(param, field, value) ==
  IF \E i \in 1..Len(param.fields) : param.fields[i].field = field
    THEN [param EXCEPT !.fields =
            [i \in 1..Len(param.fields) |->
               IF param.fields[i].field = field
                 THEN [field |-> field, value |-> value] ELSE param.fields[i]]]
    ELSE [param EXCEPT !.fields = Append(@, [field |-> field, value |-> value])]

\* Number.isNaN(value)
NumberIsNaN(value) == value.t = "number" /\ "nan" \in DOMAIN value

\* Number.isInteger(value)
NumberIsInteger(value) == value.t = "number" /\ DOMAIN value = {"t", "n"}

\* parseInt(value): a number is truncated, a text is read up to its first
\* non-digit, anything whose text does not start with a number gives NaN.
parseInt(value) ==
  CASE NumberIsInteger(value) -> value
    [] value.t = "number" /\ "tenths" \in DOMAIN value -> Num(value.n)
    [] value = Str("12") -> Num(12)
    [] value = Str("1.5") -> Num(1)
    [] OTHER -> NaN

\* parseFloat(value)
parseFloat(value) ==
  CASE value.t = "number" -> value
    [] value = Str("12") -> Num(12)
    [] value = Str("1.5") -> Frac(1, 5)
    [] OTHER -> NaN

\* JSON.stringify(value, null, 2): undefined for undefined, else a text; NaN is
\* written as null.
JSONstringify(value) ==
  IF value.t = "undefined" THEN Undefined
  ELSE [t |-> "string", s |-> "json", of |-> IF NumberIsNaN(value) THEN Null ELSE value]

\* The cases of the switch: the lower-cased type name and the field it sets.
RecognizedTypes ==
  { <<"humanname", "valueHumanName">>, <<"contactpoint", "valueContactPoint">>,
    <<"address", "valueAddress">>, <<"quantity", "valueQuantity">>,
    <<"age", "valueAge">>, <<"count", "valueCount">>,
    <<"distance", "valueDistance">>, <<"duration", "valueDuration">>,
    <<"money", "valueMoney">>, <<"codeableconcept", "valueCodeableConcept">>,
    <<"coding", "valueCoding">>, <<"identifier", "valueIdentifier">>,
    <<"period", "valuePeriod">>, <<"range", "valueRange">>,
    <<"ratio", "valueRatio">>, <<"reference", "valueReference">>,
    <<"attachment", "valueAttachment">>, <<"annotation", "valueAnnotation">>,
    <<"sampleddata", "valueSampledData">>, <<"signature", "valueSignature">>,
    <<"timing", "valueTiming">>, <<"contactdetail", "valueContactDetail">>,
    <<"contributor", "valueContributor">>, <<"datarequirement", "valueDataRequirement">>,
    <<"expression", "valueExpression">>,
    <<"parameterdefinition", "valueParameterDefinition">>,
    <<"relatedartifact", "valueRelatedArtifact">>,
    <<"triggerdefinition", "valueTriggerDefinition">>,
    <<"usagecontext", "valueUsageContext">>, <<"dosage", "valueDosage">>,
    <<"meta", "valueMeta">>,
    <<"string", "valueString">>, <<"system.string", "valueString">>,
    <<"boolean", "valueBoolean">>, <<"integer", "valueInteger">>,
    <<"decimal", "valueDecimal">>, <<"date", "valueDate">>,
    <<"datetime", "valueDateTime">>, <<"time", "valueTime">>,
    <<"instant", "valueInstant">>, <<"code", "valueCode">>,
    <<"base64binary", "valueBase64Binary">>, <<"canonical", "valueCanonical">>,
    <<"id", "valueId">>, <<"markdown", "valueMarkdown">>, <<"oid", "valueOid">>,
    <<"positiveint", "valuePositiveInt">>, <<"unsignedint", "valueUnsignedInt">>,
    <<"uri", "valueUri">>, <<"url", "valueUrl">>, <<"uuid", "valueUuid">> }

IsRecognized(type) == \E case \in RecognizedTypes : case[1] = type

\* Mutant: every recognized type sets the string field.
FieldOfString(type) == "valueString"

FieldOf(type) == (CHOOSE case \in RecognizedTypes : case[1] = type)[2]

\* What the case assigns: parseInt(item.value), parseFloat(item.value) or item.value.
Converted(type, value) ==
  CASE type \in {"integer", "positiveint", "unsignedint"} -> parseInt(value)
    [] type = "decimal" -> parseFloat(value)
    [] OTHER -> value

\* item.typeInfo?.name || item.typeInfo?.type || 'Any'
DataTypeOf(item) ==
  OrChain(<<TypeInfoOf(item).name, TypeInfoOf(item).type, Str("Any")>>)

\* switch (dataType.toLowerCase()) { ... default: ... }
EncodeByType(param, item, resourcePath, fullData) ==
  LET type == LowerCase(DataTypeOf(item).s)
  IN IF IsRecognized(type)
       THEN SetField(param, FieldOf(type), Converted(type, ValueOf(item)))
     ELSE IF fullData
       THEN [param EXCEPT !.extension =
               Arr((IF Truthy(param.extension) THEN param.extension.items ELSE <<>>)
                   \o <<Ext(JSON_VALUE_EXTENSION_URL, JSONstringify(ValueOf(item)))>>)]
     ELSE IF Truthy(resourcePath)
       THEN [SetField(param, "valueString", resourcePath)
               EXCEPT !.name = "resource-path", !.extension = Undefined]
     ELSE param

setParameterValue(param, item, fullData) ==
  IF ~Truthy(item) THEN param
  ELSE LET resourcePath == IF Truthy(TypeInfoOf(item).path)
                             THEN TypeInfoOf(item).path ELSE Undefined
           located == IF Truthy(resourcePath)
                        THEN [param EXCEPT !.extension =
                                Arr(<<Ext(RESOURCE_PATH_EXTENSION_URL, resourcePath)>>)]
                        ELSE param
           value == ValueOf(item)
       IN IF ~Truthy(TypeInfoOf(item).name) /\ ~Truthy(TypeInfoOf(item).type)
            THEN IF ~NumberIsNaN(value)
                   THEN IF NumberIsInteger(value)
                          THEN SetField(located, "valueInteger", value)
                          ELSE SetField(located, "valueDecimal", value)
                 ELSE IF IsString(value)
                   THEN SetField(located, "valueString", value)
                 ELSE EncodeByType(located, item, resourcePath, fullData)
          ELSE EncodeByType(located, item, resourcePath, fullData)

\* const part = { name }; setParameterValue(part, item, true); the name is
\* set again only if it came out empty.
createResultValuePart(item) ==
  LET part == setParameterValue(Part(getResultPartName(item)), item, TRUE)
  IN IF part.name = "" THEN [part EXCEPT !.name = getResultPartName(item)] ELSE part

Map(f(_), seq) == [i \in 1..Len(seq) |-> f(seq[i])]

createTracePart(trace) ==
  [Param("trace") EXCEPT !.valueString = Str(trace.label),
                         !.part = Arr(Map(createResultValuePart, trace.values))]

\* Mutant: the trace parts come before the value parts.
ResultParameterTracesFirst(context) ==
  [Param("result") EXCEPT
     !.valueString = IF Truthy(context.contextLabel) THEN context.contextLabel ELSE Undefined,
     !.part = Arr(Map(createTracePart, context.traces) \o
                  Map(createResultValuePart, context.expressionResult))]

\* One 'result' section for one context entry.
ResultParameter(context) ==
  [Param("result") EXCEPT
     !.valueString = IF Truthy(context.contextLabel) THEN context.contextLabel ELSE Undefined,
     !.part = Arr(Map(createResultValuePart, context.expressionResult) \o
                  Map(createTracePart, context.traces))]

EmptyResultParameter == [Param("result") EXCEPT !.part = Arr(<<>>)]

\* JSON.parse(JSON.stringify(parameter)): a parameter of the request came out of
\* JSON.parse, so every field it has is copied by value and an absent field
\* stays absent.
cloneParameter(parameter) == [k \in DOMAIN parameter |-> parameter[k]]

buildEvaluatorMetadata(version) ==
  "@atomic-ehr/fhirpath (server) using fhir-" \o version

\* Object.values(additionalInputs): the groups under integer-like names come
\* first, the others follow in insertion order.
IntegerLikeNames == {"7"}

ObjectValues(additional) ==
  SelectSeq(additional, LAMBDA g : g[1] \in IntegerLikeNames) \o
  SelectSeq(additional, LAMBDA g : g[1] \notin IntegerLikeNames)

RECURSIVE Flatten(_)
Flatten(groups) ==
  IF groups = <<>> THEN <<>> ELSE Head(groups)[2] \o Flatten(Tail(groups))

\* ------------------------------------------------------- tree transformer
\* A JsonNode; AxisExpression and ConstantExpression nodes have no Arguments.
JsonNode(expressionType, name, arguments, returnType) ==
  [t |-> "object", ExpressionType |-> expressionType, Name |-> name,
   Arguments |-> arguments, ReturnType |-> returnType]

JsonLeaf(expressionType, name, returnType) ==
  [t |-> "object", ExpressionType |-> expressionType, Name |-> name,
   ReturnType |-> returnType]

\* ast.type, undefined for what is not a node
NodeType(ast) == IF ast.t = "object" /\ "type" \in DOMAIN ast THEN ast.type ELSE ""

\* extractReturnType(ast): reading ast.typeInfo throws when ast is undefined or null.
extractReturnType(ast) ==
  IF Nullish(ast)
    THEN Throw(Err("undefined is not an object (evaluating 'ast.typeInfo')"))
  ELSE IF ast.t # "object" THEN Ok(Str(""))
  ELSE IF Truthy(ast.typeInfo)
    THEN IF Truthy(ast.typeInfo.name) /\ ast.typeInfo.singleton = Bool(FALSE)
           THEN Ok(Str(ast.typeInfo.name.s \o "[]"))
           ELSE Ok(OrChain(<<ast.typeInfo.name, ast.typeInfo.type, Str("")>>))
  ELSE CASE ast.type = "Literal" -> Ok(OrChain(<<ast.valueType, Str("string")>>))
         [] ast.type = "Identifier" -> Ok(Str("Any"))
         [] OTHER -> Ok(Str(""))

\* createAxisExpressionNode(ast)
createAxisExpressionNode(ast) ==
  JsonLeaf("AxisExpression",
           IF ast.name = Str("Patient") THEN Str("builtin.that") ELSE ast.name,
           extractReturnType(ast).value)

\* createConstantExpressionNode(ast): Name is the value between double quotes.
createConstantExpressionNode(ast) ==
  JsonLeaf("ConstantExpression", [t |-> "string", s |-> "quoted", of |-> ast.value],
           OrChain(<<ast.valueType, Str("string")>>))

\* func.name?.name || func.name || ''
FunctionName(func) ==
  OrChain(<<IF func.name.t = "object" THEN func.name.name ELSE Undefined,
            func.name, Str("")>>)

RECURSIVE buildJsonNodeTree(_), BuildArguments(_, _)

\* for (const arg of ...) { const node = buildJsonNodeTree(arg); if (node) args.push(node) }
BuildArguments(args, nodes) ==
  IF nodes = <<>> THEN Ok(args)
  ELSE LET node == buildJsonNodeTree(Head(nodes))
       IN IF ~node.ok THEN node
          ELSE BuildArguments(IF Truthy(node.value) THEN Append(args, node.value) ELSE args,
                              Tail(nodes))

\* createFunctionCallNode(focus, func)
createFunctionCallNode(focus, func) ==
  LET args == BuildArguments(<<>>,
                (IF Truthy(focus) THEN <<focus>> ELSE <<>>) \o
                (IF Truthy(func.arguments) /\ func.arguments.t = "array"
                   THEN func.arguments.items ELSE <<>>))
  IN IF ~args.ok THEN args
     ELSE Ok(JsonNode("FunctionCallExpression", FunctionName(func), Arr(args.value),
                      extractReturnType(func).value))

\* createChildExpressionNode(left, right)
createChildExpressionNode(left, right) ==
  LET args == BuildArguments(<<>>, <<left>>)
      returnType == extractReturnType(right)
  IN IF ~args.ok THEN args
     ELSE IF ~returnType.ok THEN returnType
     ELSE Ok(JsonNode("ChildExpression",
                      OrChain(<<IF right.t = "object" THEN right.name ELSE Undefined, Str("")>>),
                      Arr(args.value), returnType.value))

buildJsonNodeTree(ast) ==
  IF ~Truthy(ast) THEN Ok(Null)
  ELSE IF NodeType(ast) = "Binary" /\ ast.operator = Str(".")
    THEN IF NodeType(ast.right) = "Function"
           THEN createFunctionCallNode(ast.left, ast.right)
           ELSE createChildExpressionNode(ast.left, ast.right)
  ELSE IF NodeType(ast) = "Identifier" THEN Ok(createAxisExpressionNode(ast))
  ELSE IF NodeType(ast) = "Literal" THEN Ok(createConstantExpressionNode(ast))
  ELSE IF NodeType(ast) = "Function" THEN createFunctionCallNode(Null, ast)
  ELSE Ok(Null)

\* if (!ast || typeof ast !== 'object') return null; return buildJsonNodeTree(ast)
transformAstToJsonNode(ast) ==
  IF ~Truthy(ast) \/ ast.t \notin {"object", "array"} THEN Ok(Null)
  ELSE buildJsonNodeTree(ast)

\* stringifySafe(value, indent): the JSON text of the value
stringifySafe(value) == [t |-> "string", s |-> "json", of |-> value]

\* The parts of the 'parameters' echo section, in the order they are pushed.
ParameterParts(extraction, execution, version) ==
  LET evaluator == <<[Param("evaluator") EXCEPT
                        !.valueString = Str(buildEvaluatorMetadata(version))]>>
      expression == IF Truthy(extraction.expressionParameter)
                      THEN <<cloneParameter(extraction.expressionParameter)>> ELSE <<>>
      context == IF Truthy(extraction.contextParameter)
                   THEN <<cloneParameter(extraction.contextParameter)>> ELSE <<>>
      resource == IF Truthy(extraction.resourceDescriptor)
                     /\ Truthy(extraction.resourceDescriptor.parameter)
                    THEN <<cloneParameter(extraction.resourceDescriptor.parameter)>>
                  ELSE IF Truthy(extraction.resource)
                    THEN <<[Param("resource") EXCEPT !.resource = extraction.resource]>>
                  ELSE <<>>
      variables == IF Truthy(extraction.variablesParameter)
                     THEN <<cloneParameter(extraction.variablesParameter)>> ELSE <<>>
      additional == Map(cloneParameter, Flatten(ObjectValues(extraction.additionalInputs)))
      terminology == IF Truthy(extraction.terminologyServer)
                       THEN <<[Param("terminologyServerStatus") EXCEPT !.valueString =
                                 Str("terminologyServer parameter captured for future use")]>>
                       ELSE <<>>
      transformedAst == transformAstToJsonNode(execution.analysis.ast).value
      tree == IF Truthy(execution.analysis.ast) /\ Truthy(transformedAst)
                THEN <<[Param("parseDebugTree") EXCEPT
                          !.valueString = stringifySafe(transformedAst)]>>
                ELSE <<>>
      pushed == evaluator \o expression \o context \o resource \o variables \o
                additional \o terminology \o tree
      hasExpectedReturnType == \E i \in 1..Len(pushed) : pushed[i].name = "expectedReturnType"
      returnType == IF Truthy(execution.analysis.type)
                      THEN execution.analysis.type.name ELSE Undefined
      expected == IF ~hasExpectedReturnType /\ Truthy(returnType)
                    THEN <<[Param("expectedReturnType") EXCEPT !.valueString = returnType]>>
                    ELSE <<>>
      diagnostics == Map(LAMBDA d : [Param("analysis-diagnostic") EXCEPT
                                       !.valueString = stringifySafe(d)],
                         execution.analysis.diagnostics)
  IN pushed \o expected \o diagnostics

\* The trailing 'debug-trace' section, when there are diagnostics.
DebugTrace(analysis) ==
  IF Len(analysis.diagnostics) > 0
    THEN <<[Param("debug-trace") EXCEPT !.part =
              Arr(Map(LAMBDA d : [Param("diagnostic") EXCEPT !.valueString = stringifySafe(d)],
                      analysis.diagnostics))]>>
    ELSE <<>>

\* Mutant: no empty result when there is no context entry.
buildResponseParametersNoFallback(extraction, execution, version) ==
  [resourceType |-> "Parameters",
   parameter |->
     <<[Param("parameters") EXCEPT !.part = Arr(ParameterParts(extraction, execution, version))]>>
     \o Map(ResultParameter, execution.contexts)
     \o DebugTrace(execution.analysis)]

\* The 'parameters' echo, then one result per context, or the empty result when
\* there is no context, then debug-trace if diagnostics exist.
buildResponseParameters(extraction, execution, version) ==
  [resourceType |-> "Parameters",
   parameter |->
     <<[Param("parameters") EXCEPT !.part = Arr(ParameterParts(extraction, execution, version))]>>
     \o (IF Len(execution.contexts) > 0 THEN Map(ResultParameter, execution.contexts)
         ELSE <<EmptyResultParameter>>)
     \o DebugTrace(execution.analysis)]

\* buildResponseParameters followed by createFhirResponse, inside the try
\* block; what transformAstToJsonNode throws leaves buildResponseParameters.
Assemble(extraction, execution, version) ==
  IF Truthy(execution.analysis.ast) /\ ~transformAstToJsonNode(execution.analysis.ast).ok
    THEN Throw(transformAstToJsonNode(execution.analysis.ast).error)
    ELSE Ok(createFhirResponse(buildResponseParameters(extraction, execution, version), 200))

\* How a handler invocation ends.
Pending == [kind |-> "pending", response |-> NoResponse, error |-> NonError]
Returned(response) == [kind |-> "response", response |-> response, error |-> NonError]
Escaped(error) == [kind |-> "exception", response |-> NoResponse, error |-> error]

\* Mutant: the catch block rethrows what is not an Error.
tryCatchRethrow(route, result) ==
  IF result.ok THEN Returned(result.value)
  ELSE IF result.error.isError THEN Returned(catchBlock(route, result.error))
  ELSE Escaped(result.error)

\* try { ... return response } catch (error) { return createErrorResponse(...) }
tryCatch(route, result) ==
  IF result.ok THEN Returned(result.value)
  ELSE Returned(catchBlock(route, result.error))

\* ------------------------------------------------------------------ requests
ExpressionParam(text) == [Param("expression") EXCEPT !.valueString = Str(text)]
ContextParam(text) == [Param("context") EXCEPT !.valueString = Str(text)]
InlineResource(doc) == [Param("resource") EXCEPT !.resource = doc]
ExtensionResource(url, text) ==
  [Param("resource") EXCEPT !.extension = Arr(<<Ext(url, Str(text))>>)]
VariablesParam(parts) == [Param("variables") EXCEPT !.part = Arr(parts)]

Envelope(parameters) ==
  [t |-> "object", resourceType |-> Str("Parameters"), parameter |-> parameters]

JsonBody(data) == Body("resolves", "json", data)

\* Envelopes that pass validation.
ValidEnvelopes ==
  { Envelope(Arr(<<ExpressionParam("gender"), InlineResource(PatientDoc)>>)),
    Envelope(Arr(<<ExpressionParam("given"), ContextParam("name"), InlineResource(PatientDoc)>>)) }

MoreValidEnvelopes ==
  { Envelope(Arr(<<ExpressionParam("gender"), ContextParam(""), InlineResource(PatientDoc)>>)),
    Envelope(Arr(<<ExpressionParam("given"), ContextParam(" "),
                   InlineResource(Doc(Undefined, Arr(<<Str(ProfileR5)>>)))>>)),
    Envelope(Arr(<<ExpressionParam("gender"),
                   ExtensionResource(JSON_VALUE_EXTENSION_URL, JsonPatient)>>)),
    Envelope(Arr(<<ExpressionParam("given"), ContextParam("name"), InlineResource(PatientDoc),
                   VariablesParam(<<[Param("v") EXCEPT !.valueString = Str("1")],
                                    [Param("resource") EXCEPT !.valueString = Str("mine")],
                                    [Param("context") EXCEPT !.valueString = Str("mine")]>>),
                   [Param("validate") EXCEPT !.valueBoolean = Bool(TRUE)]>>)),
    Envelope(Arr(<<[Param("a") EXCEPT !.valueString = Str("1")],
                   ExpressionParam("gender"),
                   [Param("b") EXCEPT !.valueString = Str("2")],
                   InlineResource(PatientDoc),
                   [Param("a") EXCEPT !.valueString = Str("3")],
                   VariablesParam(<<[Param("rootResource") EXCEPT !.valueString = Str("mine")]>>),
                   [Param("terminologyserver") EXCEPT !.valueString = Str("http://tx.example.org")],
                   [Param("expectedReturnType") EXCEPT !.valueString = Str("string")],
                   [Param("7") EXCEPT !.valueString = Str("4")]>>)) }

\* Envelopes and bodies on which some step before the engine fails.
FailingBodies ==
  { Body("rejects", "json", Undefined),
    Body("resolves", "blank", Undefined),
    Body("resolves", "malformed", Undefined),
    JsonBody(Null),
    JsonBody(PatientDoc),
    JsonBody(Envelope(Undefined)),
    JsonBody(Envelope(Bool(TRUE))),
    JsonBody(Envelope(Arr(<<InlineResource(PatientDoc)>>))),
    JsonBody(Envelope(Arr(<<ExpressionParam("gender")>>))),
    JsonBody(Envelope(Arr(<<ExpressionParam("gender"), Param("resource")>>))),
    JsonBody(Envelope(Arr(<<ExpressionParam("gender"),
                            ExtensionResource(JSON_VALUE_EXTENSION_URL, JsonBroken)>>))),
    JsonBody(Envelope(Arr(<<ExpressionParam("gender"),
                            ExtensionResource(JSON_VALUE_EXTENSION_URL, JsonNull)>>))),
    JsonBody(Envelope(Arr(<<ExpressionParam("gender"),
                            ExtensionResource(XML_VALUE_EXTENSION_URL, "<Patient/>")>>))),
    JsonBody(Envelope(Arr(<<ExpressionParam("gender"), InlineResource(PatientDoc),
                            Param("constructor")>>))),
    JsonBody(Envelope(Arr(<<ExpressionParam("gender"),
                            InlineResource(Doc(Str("Patient"), Bool(TRUE)))>>))),
    JsonBody(Envelope(Arr(<<ExpressionParam("gender"), InlineResource(PatientDoc),
                            VariablesParam(<<Null>>)>>))) }

\* Routes of the server: '/r4', '/r5', '/r6' call processVersionedRequest with
\* that version, '/' calls processAutoVersionRequest.
Routes == {"/r4", "/"}

TargetVersion(route) == IF route = "/r4" THEN "r4" ELSE "auto"

Request(route, body) == [route |-> route, body |-> body]

NoRequest == Request("", Body("", "", Undefined))

\* The requests one handler invocation may be given.
AllRequests ==
  { Request(route, body) :
      route \in Routes,
      body \in FailingBodies \cup { JsonBody(e) : e \in ValidEnvelopes \cup MoreValidEnvelopes } }

\* What runEvaluation returned to the handler, once it has.
NoExecution == [returned |-> FALSE, contexts |-> <<>>, analysis |-> NoAnalysis]
Execution(contexts, analysis) == [returned |-> TRUE, contexts |-> contexts, analysis |-> analysis]

\* The step of the handler that threw, and what it threw.
NoFailure == [step |-> "none", error |-> NonError]
Failure(step, error) == [step |-> step, error |-> error]

\* The state of one handler invocation: its position, its locals, and as history
\* the traces its evaluations emitted, its begin/end calls so far, its engine
\* calls, and the place on the stack of the frame it pushed last.
IdleRequest ==
  [pc |-> "idle", input |-> NoRequest, extraction |-> EmptyExtraction, version |-> "",
   analysis |-> NoAnalysis, items |-> <<>>, cur |-> 0, contexts |-> <<>>,
   execution |-> NoExecution, failed |-> NoFailure,
   outcome |-> Pending, emitted |-> <<>>, begins |-> 0, ends |-> 0, calls |-> <<>>,
   frameAt |-> 0]

\* A call of one of the pure functions of the service.
NoCall == [fn |-> "none", input |-> Undefined, output |-> Undefined]
Call(fn, input, output) == [fn |-> fn, input |-> input, output |-> output]

VARIABLES
  collectors,   \* the process-wide stack of trace frames
  now,          \* Date.now()
  req,          \* per request: the state of its handler invocation
  lastOp,       \* stand-alone collector run: the last operation called
  returned,     \* stand-alone collector run: what endTraceCollection returned last
  ops,          \* stand-alone collector run: operations called so far
  call          \* stand-alone function run: the last call, its input and result

vars == <<collectors, now, req, lastOp, returned, ops, call>>

Init ==
  /\ collectors = <<>>
  /\ now = 0
  /\ req = [r \in Reqs |-> IdleRequest]
  /\ lastOp = "none"
  /\ returned = <<>>
  /\ ops = 0
  /\ call = NoCall

\* ------------------------------------------------------------ handler steps
\* { ...object, [name]: value }
Assign(object, name, value) ==
  [n \in (DOMAIN object) \cup {name} |-> IF n = name THEN value ELSE object[n]]

\* { ...userVariables, resource, rootResource: resource }
baseVariableSet(userVariables, resource) ==
  Assign(Assign(userVariables, "resource", resource), "rootResource", resource)

\* Mutant: the user's bindings are spread last and replace the system values.
EvaluateOptionsUserLast(userVariables, resource, context) ==
  LET system == Assign(baseVariableSet(<<>>, resource), "context", context)
  IN [input |-> context,
      variables |-> [n \in (DOMAIN system) \cup (DOMAIN userVariables) |->
                       IF n \in DOMAIN userVariables THEN userVariables[n] ELSE system[n]]]

\* { input: context, variables: { ...baseVariableSet, context } }
EvaluateOptions(userVariables, resource, context) ==
  [input |-> context,
   variables |-> Assign(baseVariableSet(userVariables, resource), "context", context)]

\* Mutant: analyze is given the base variable set.
AnalyzeOptionsBase(userVariables, resource) ==
  [input |-> Undefined, variables |-> baseVariableSet(userVariables, resource)]

\* analyze(expression, { variables: userVariables, modelProvider })
AnalyzeOptions(userVariables, resource) ==
  [input |-> Undefined, variables |-> userVariables]

\* One call of the engine, kept as history: analyze or evaluate, the expression
\* and the options.
EngineCall(fn, expression, options) ==
  [fn |-> fn, expression |-> expression, options |-> options]

\* The evaluate call of a request for the given expression and context value.
Evaluate(request, expression, context) ==
  EngineCall("evaluate", expression,
    EvaluateOptions(extractVariables(request.extraction.variableParts).value,
                    request.extraction.resource, context))

\* extraction.expression ?? ''
ExpressionText(extraction) ==
  IF Nullish(extraction.expression) THEN Str("") ELSE extraction.expression

\* The handler returns a response without having thrown.
Respond(r, response) ==
  req' = [req EXCEPT ![r] = [@ EXCEPT !.pc = "done", !.outcome = Returned(response)]]

\* A step inside the try block throws: the catch block answers.
Fail(r, step, error) ==
  req' = [req EXCEPT ![r] = [@ EXCEPT !.pc = "done", !.failed = Failure(step, error),
            !.outcome = tryCatch(req[r].input.route, Throw(error))]]

\* The handler is invoked and suspends on request.text().  Requests are numbered
\* in the order of their arrival.
Start(r, E) ==
  /\ req[r].pc = "idle"
  /\ \A q \in Reqs : q < r => req[q].pc # "idle"
  /\ \E request \in E.requests :
       req' = [req EXCEPT ![r] = [@ EXCEPT !.pc = "reading", !.input = request]]
  /\ UNCHANGED <<collectors, now, lastOp, returned, ops, call>>

\* request.text() settles: parseRequest, validateExtraction, version detection,
\* then the call of waitForVersion.
BodyRead(r, E) ==
  /\ req[r].pc = "reading"
  /\ LET route == req[r].input.route
         parsed == parseRequest(req[r].input.body)
     IN IF ~parsed.ok THEN Fail(r, "parse", parsed.error)
        ELSE LET validationError == validateExtraction(parsed.value)
                 detected == IF route = "/" THEN DetectVersion(parsed.value.resource)
                             ELSE Ok(Str(TargetVersion(route)))
             IN IF validationError # NoResponse THEN Respond(r, validationError)
                ELSE IF ~detected.ok THEN Fail(r, "detect", detected.error)
                ELSE req' = [req EXCEPT ![r] = [@ EXCEPT !.pc = "waitVersion",
                                                          !.extraction = parsed.value,
                                                          !.version = detected.value.s]]
  /\ UNCHANGED <<collectors, now, lastOp, returned, ops, call>>

\* waitForVersion settles; getModelProvider; runEvaluation up to the analyze call.
VersionReady(r, E) ==
  /\ req[r].pc = "waitVersion"
  /\ \E outcome \in E.waits :
       LET waited == waitForVersion(outcome, req[r].version)
           userVariables == extractVariables(req[r].extraction.variableParts)
       IN IF ~waited.ok THEN Fail(r, "wait", waited.error)
          ELSE IF ~Truthy(getModelProvider(outcome))
            THEN Respond(r, createErrorResponse("error", "not-supported",
                   "FHIR version " \o req[r].version \o " is not available"))
          ELSE IF ~userVariables.ok THEN Fail(r, "variables", userVariables.error)
          ELSE req' = [req EXCEPT ![r] = [@ EXCEPT !.pc = "analyzing",
                         !.calls = Append(@, EngineCall("analyze", ExpressionText(req[r].extraction),
                                             AnalyzeOptions(userVariables.value,
                                                            req[r].extraction.resource)))]]
  /\ UNCHANGED <<collectors, now, lastOp, returned, ops, call>>

\* Mutant: only an absent context expression means no context.
HasContextExpressionDefined(extraction) == extraction.contextExpression # Undefined

\* if (extraction.contextExpression): absent and empty both mean no context
hasContextExpression(extraction) == Truthy(extraction.contextExpression)

\* for (const [index, contextItem] of contextItems.entries()): the first index
FirstIndex == 0

\* Mutant: the loop takes the same item again.
NextIndexSame(k) == k

\* ... and the index the loop takes after index k.
NextIndex(k) == k + 1

\* analyze settles; then evaluate(contextExpression), or the single evaluation.
AnalyzeReturn(r, E) ==
  /\ req[r].pc = "analyzing"
  /\ \/ \E error \in E.throws :
          /\ Fail(r, "analyze", error)
          /\ UNCHANGED collectors
     \/ \E result \in E.analyses :
          IF hasContextExpression(req[r].extraction)
            THEN /\ req' = [req EXCEPT ![r] = [@ EXCEPT !.pc = "evalContext",
                              !.analysis = result,
                              !.calls = Append(@, Evaluate(req[r], req[r].extraction.contextExpression,
                                                           req[r].extraction.resource))]]
                 /\ UNCHANGED collectors
            ELSE /\ collectors' = beginTraceCollection(collectors)
                 /\ req' = [req EXCEPT ![r] = [@ EXCEPT !.pc = "evalRoot",
                              !.analysis = result,
                              !.begins = @ + 1,
                              !.frameAt = Len(collectors) + 1,
                              !.calls = Append(@, Evaluate(req[r], ExpressionText(req[r].extraction),
                                                           req[r].extraction.resource))]]
  /\ UNCHANGED <<now, lastOp, returned, ops, call>>

\* runEvaluation returns the contexts; buildResponseParameters and the response,
\* still inside the try block.
Finished(r, request, contexts) ==
  LET execution == Execution(contexts, request.analysis)
      assembled == Assemble(request.extraction, execution, request.version)
  IN [request EXCEPT !.pc = "done", !.contexts = contexts,
                     !.execution = execution,
                     !.failed = IF assembled.ok THEN @
                                ELSE Failure("assemble", assembled.error),
                     !.outcome = tryCatch(request.input.route, assembled)]

\* evaluate(contextExpression) settles; the loop starts with the first item.
ContextReturn(r, E) ==
  /\ req[r].pc = "evalContext"
  /\ \/ \E error \in E.throws :
          /\ Fail(r, "context", error)
          /\ UNCHANGED collectors
     \/ \E contextItems \in E.itemSeqs :
          IF FirstIndex < Len(contextItems)
            THEN /\ collectors' = beginTraceCollection(collectors)
                 /\ req' = [req EXCEPT ![r] = [@ EXCEPT !.pc = "evalItem",
                              !.items = contextItems,
                              !.cur = FirstIndex,
                              !.begins = @ + 1,
                              !.frameAt = Len(collectors) + 1,
                              !.calls = Append(@, Evaluate(req[r], req[r].extraction.expression,
                                                    unwrapBoxedValue(contextItems[FirstIndex + 1])))]]
            ELSE /\ req' = [req EXCEPT ![r] =
                              Finished(r, [@ EXCEPT !.items = contextItems], <<>>)]
                 /\ UNCHANGED collectors
  /\ UNCHANGED <<now, lastOp, returned, ops, call>>

\* One entry of the context result set.
ContextEntry(index, contextValue, contextLabel, expressionResult, traces) ==
  [index |-> index, contextValue |-> contextValue, contextLabel |-> contextLabel,
   expressionResult |-> expressionResult, traces |-> traces]

\* evaluate(expression) for the current context item settles: the frame is
\* closed, and the loop goes on to the next item or runEvaluation returns.
ItemReturn(r, E) ==
  /\ req[r].pc = "evalItem"
  /\ LET ended == endTraceCollection(collectors)
         index == req[r].cur
         contextItem == req[r].items[index + 1]
     IN \/ \E error \in E.throws :
             /\ collectors' = ended.stack
             /\ req' = [req EXCEPT ![r] = [@ EXCEPT !.pc = "done", !.ends = @ + 1,
                          !.failed = Failure("item", error),
                          !.outcome = tryCatch(req[r].input.route, Throw(error))]]
        \/ \E expressionResult \in E.results :
             LET entry == ContextEntry(index, unwrapBoxedValue(contextItem),
                            deriveContextLabel(req[r].extraction.resource,
                                               req[r].extraction.contextExpression,
                                               index, contextItem),
                            expressionResult, ended.frame)
                 contexts == Append(req[r].contexts, entry)
             IN IF NextIndex(index) < Len(req[r].items)
                  THEN /\ collectors' = beginTraceCollection(ended.stack)
                       /\ req' = [req EXCEPT ![r] = [@ EXCEPT !.contexts = contexts,
                                    !.cur = NextIndex(index),
                                    !.ends = @ + 1, !.begins = @ + 1,
                                    !.frameAt = Len(ended.stack) + 1,
                                    !.calls = Append(@, Evaluate(req[r], req[r].extraction.expression,
                                       unwrapBoxedValue(req[r].items[NextIndex(index) + 1])))]]
                  ELSE /\ collectors' = ended.stack
                       /\ req' = [req EXCEPT ![r] =
                                    Finished(r, [@ EXCEPT !.ends = @ + 1], contexts)]
  /\ UNCHANGED <<now, lastOp, returned, ops, call>>

\* The single evaluate(expression) of a request without context expression settles.
RootReturn(r, E) ==
  /\ req[r].pc = "evalRoot"
  /\ LET ended == endTraceCollection(collectors)
     IN /\ collectors' = ended.stack
        /\ \/ \E error \in E.throws :
                req' = [req EXCEPT ![r] = [@ EXCEPT !.pc = "done", !.ends = @ + 1,
                          !.failed = Failure("root", error),
                          !.outcome = tryCatch(req[r].input.route, Throw(error))]]
           \/ \E expressionResult \in E.results :
                req' = [req EXCEPT ![r] =
                          Finished(r, [@ EXCEPT !.ends = @ + 1],
                                   <<ContextEntry(0, req[r].extraction.resource, Undefined,
                                                  expressionResult, ended.frame)>>)]
  /\ UNCHANGED <<now, lastOp, returned, ops, call>>

\* The trace hook: a pending evaluate of the request calls recordTrace.
Emit(r, E) ==
  /\ req[r].pc \in {"evalContext", "evalItem", "evalRoot"}
  /\ Len(req[r].emitted) < E.emits
  /\ \E label \in E.labels, values \in TraceValues :
       LET k == IF req[r].pc = "evalContext" THEN -1 ELSE req[r].cur
           entry == TraceEntry(label, values, now, <<r, k>>)
       IN /\ collectors' = recordTrace(collectors, entry)
          /\ req' = [req EXCEPT ![r] = [@ EXCEPT !.emitted = Append(@, entry)]]
  /\ UNCHANGED <<now, lastOp, returned, ops, call>>

\* The wall clock advances.
Tick ==
  /\ now < MaxClock
  /\ now' = now + 1
  /\ UNCHANGED <<collectors, req, lastOp, returned, ops, call>>

Step(r, E) ==
  \/ Start(r, E)
  \/ BodyRead(r, E)
  \/ VersionReady(r, E)
  \/ AnalyzeReturn(r, E)
  \/ ContextReturn(r, E)
  \/ ItemReturn(r, E)
  \/ RootReturn(r, E)
  \/ Emit(r, E)

\* The environment of a run: the requests that arrive and what the engine and
\* the version manager may answer.
WideEnv ==
  [requests |-> AllRequests, waits |-> WaitOutcomes, analyses |-> AnalysisResults,
   throws |-> EngineThrows, itemSeqs |-> ContextItemSeqs, results |-> ExpressionResults,
   labels |-> TraceLabels, emits |-> MaxEmit]

\* A narrower environment for runs with several requests in flight.
NarrowEnv ==
  [requests |-> { Request("/r4", JsonBody(e)) : e \in ValidEnvelopes },
   waits |-> {"resolved"}, analyses |-> {Analysis(AstIdentifier, <<>>, Undefined)},
   throws |-> {Err("engine failure")},
   itemSeqs |-> SeqsUpTo({Boxed(Str("name0"), Str("HumanName"), Str("Patient.name"))}, MaxItems),
   results |-> {<<>>}, labels |-> {"x"}, emits |-> 1]

\* Requests handled concurrently, interleaved at their suspension points.
Next == \E r \in Reqs : Step(r, NarrowEnv)

Spec == Init /\ [][Next]_vars

\* One request handled alone.
NextAlone == Tick \/ Step(1, WideEnv)

SpecAlone == Init /\ [][NextAlone]_vars

\* ------------------------------------------------- the collector on its own
\* Any caller may call the three operations in any order.
CallBegin ==
  /\ ops < MaxOps
  /\ collectors' = beginTraceCollection(collectors)
  /\ lastOp' = "begin"
  /\ ops' = ops + 1
  /\ UNCHANGED <<now, req, returned, call>>

CallEnd ==
  /\ ops < MaxOps
  /\ collectors' = endTraceCollection(collectors).stack
  /\ returned' = endTraceCollection(collectors).frame
  /\ lastOp' = "end"
  /\ ops' = ops + 1
  /\ UNCHANGED <<now, req, call>>

CallRecord ==
  /\ ops < MaxOps
  /\ \E label \in TraceLabels, values \in TraceValues :
       collectors' = recordTrace(collectors, TraceEntry(label, values, now, <<0, ops>>))
  /\ lastOp' = "record"
  /\ ops' = ops + 1
  /\ UNCHANGED <<now, req, returned, call>>

NextCollector == CallBegin \/ CallEnd \/ CallRecord \/ Tick

SpecCollector == Init /\ [][NextCollector]_vars

\* ------------------------------------------------- the functions on their own
\* One call of a function on one input, the input drawn from the sets below.
\* Parameters an envelope may be made of: names repeat and interleave.
EnvelopeParameters ==
  { ExpressionParam("gender"),
    InlineResource(PatientDoc),
    Param("resource"),
    ExtensionResource(JSON_VALUE_EXTENSION_URL, JsonBroken),
    ExtensionResource(JSON_VALUE_EXTENSION_URL, JsonNull),
    VariablesParam(<<>>),
    [Param("a") EXCEPT !.valueString = Str("1")],
    [Param("b") EXCEPT !.valueString = Str("2")],
    [Param("validate") EXCEPT !.valueString = Str("TRUE")],
    Param("constructor") }

\* Extensions a resource parameter may carry.
ResourceExtensions ==
  { Ext(JSON_VALUE_EXTENSION_URL, Str(JsonPatient)),
    Ext(JSON_VALUE_EXTENSION_URL, Str(JsonBroken)),
    Ext(JSON_VALUE_EXTENSION_URL, Bool(TRUE)),
    Ext(JSON_VALUE_EXTENSION_URL, Str("")),
    Ext(XML_VALUE_EXTENSION_URL, Str("<Patient/>")),
    Ext("http://example.org/other", Str("x")) }

\* 'resource' parameters: with or without an embedded document, with or
\* without extensions.
ResourceParameters ==
  { [Param("resource") EXCEPT !.resource = doc, !.extension = extension] :
      doc \in {Undefined, PatientDoc},
      extension \in {Undefined} \cup { Arr(exts) : exts \in SeqsUpTo(ResourceExtensions, MaxExts) } }

\* Variable-binding parameters: each scalar field absent, falsy or truthy.
VariableParameters ==
  { [Param(name) EXCEPT !.valueString = valueString, !.valueBoolean = valueBoolean,
                        !.valueInteger = valueInteger, !.resource = doc] :
      name \in {"v"},
      valueString \in {Undefined, Str(""), Str("s")},
      valueBoolean \in {Undefined, Bool(FALSE), Bool(TRUE)},
      valueInteger \in {Undefined, Num(0), Num(7)},
      doc \in {Undefined, PatientDoc} }

CallExtractEvaluationParameters ==
  /\ call.fn = "none"
  /\ \E parameters \in SeqsUpTo(EnvelopeParameters, MaxParams) :
       call' = Call("extractEvaluationParameters", parameters,
                    extractEvaluationParameters(Envelope(Arr(parameters))))
  /\ UNCHANGED <<collectors, now, req, lastOp, returned, ops>>

CallParseResourceParameter ==
  /\ call.fn = "none"
  /\ \E parameter \in ResourceParameters :
       call' = Call("parseResourceParameter", parameter, parseResourceParameter(parameter))
  /\ UNCHANGED <<collectors, now, req, lastOp, returned, ops>>

CallExtractVariables ==
  /\ call.fn = "none"
  /\ \E varParam \in VariableParameters :
       call' = Call("extractVariables", varParam, extractVariables(Arr(<<varParam>>)))
  /\ UNCHANGED <<collectors, now, req, lastOp, returned, ops>>

\* The pieces a spelled-out name is made of: plain characters, the four control
\* escapes, an escaped backslash, delimiter or other character, \u with four
\* digits (decimal only, or with a-f, A-F), \u with fewer, a lone backslash.
NameUnits ==
  { <<"a">>, <<Quote>>,
    <<Backslash, "r">>, <<Backslash, "n">>, <<Backslash, "t">>, <<Backslash, "f">>,
    <<Backslash, Backslash>>, <<Backslash, Backtick>>, <<Backslash, "q">>,
    <<Backslash, "u", "0", "0", "4", "1">>,
    <<Backslash, "u", "0", "0", "e", "9">>,
    <<Backslash, "u", "0", "0", "E", "9">>,
    <<Backslash, "u", "0", "4">>,
    <<Backslash>> }

RECURSIVE Concat(_)
Concat(seqs) == IF seqs = <<>> THEN <<>> ELSE Head(seqs) \o Concat(Tail(seqs))

NameContents == { Concat(units) : units \in SeqsUpTo(NameUnits, MaxUnits) }

\* Variable names: bare, in backticks, in single quotes, in unlike delimiters.
VariableNames ==
  NameContents
    \cup { <<Backtick>> \o content \o <<Backtick>> : content \in NameContents }
    \cup { <<Quote>> \o content \o <<Quote>> : content \in NameContents }
    \cup { <<Backtick>> \o content \o <<Quote>> : content \in NameContents }

CallNormalizeName ==
  /\ call.fn = "none"
  /\ \E name \in VariableNames :
       call' = Call("normalizeName", name, normalizeName(name))
  /\ UNCHANGED <<collectors, now, req, lastOp, returned, ops>>

\* A complex value, as the engine hands it over.
NameObject == [t |-> "object", family |-> "Doe"]

\* Typed values: a type name and a value of that type, or for the numeric
\* types a text or a number that is not of the type.
TypedValues ==
  { <<"string", Str("female")>>, <<"string", Str("")>>, <<"String", Str("female")>>,
    <<"System.String", Str("x")>>,
    <<"boolean", Bool(TRUE)>>, <<"boolean", Bool(FALSE)>>, <<"Boolean", Bool(TRUE)>>,
    <<"integer", Num(5)>>, <<"integer", Num(0)>>, <<"Integer", Num(-3)>>,
    <<"integer", Str("12")>>, <<"integer", Frac(3, 7)>>,
    <<"decimal", Frac(1, 5)>>, <<"decimal", Num(2)>>, <<"Decimal", Str("1.5")>>,
    <<"positiveInt", Num(3)>>, <<"unsignedInt", Num(0)>>,
    <<"date", Str("2024-01-01")>>, <<"dateTime", Str("2024-01-01T00:00:00Z")>>,
    <<"time", Str("12:00:00")>>, <<"instant", Str("2024-01-01T00:00:00.000Z")>>,
    <<"code", Str("F")>>, <<"uri", Str("urn:x")>>, <<"url", Str("http://x")>>,
    <<"id", Str("p1")>>,
    <<"HumanName", NameObject>>,
    <<"BackboneElement", NameObject>>, <<"Any", NameObject>>, <<"Any", Str("s")>>,
    <<"BackboneElement", Null>>, <<"BackboneElement", Arr(<<Num(1)>>)>> }

UntypedValues ==
  { Bool(TRUE), Bool(FALSE), Num(5), Num(0), Frac(1, 5), Str("abc"), Str(""),
    NameObject, Null, NaN, Arr(<<>>) }

ResourcePaths == {Undefined, Str("Patient.gender")}

\* The items handed to the encoder: the type named by typeInfo.name or by
\* typeInfo.type, by neither, no typeInfo at all, and a falsy item.
EncoderItems ==
  { BoxedAs(typed[2], Str(typed[1]), Undefined, path) :
      typed \in TypedValues, path \in ResourcePaths }
    \cup { BoxedAs(typed[2], Undefined, Str(typed[1]), path) :
              typed \in TypedValues, path \in ResourcePaths }
    \cup { BoxedAs(value, Undefined, Undefined, path) :
              value \in UntypedValues, path \in ResourcePaths }
    \cup { Untyped(value) : value \in UntypedValues }
    \cup { Null }

\* The encoder applied to a fresh part, and applied again to its result.
CallSetParameterValue ==
  /\ call.fn = "none"
  /\ \E item \in EncoderItems, fullData \in BOOLEAN :
       LET once == setParameterValue(Part(getResultPartName(item)), item, fullData)
       IN call' = Call("setParameterValue", [item |-> item, fullData |-> fullData],
                       [once |-> once, twice |-> setParameterValue(once, item, fullData)])
  /\ UNCHANGED <<collectors, now, req, lastOp, returned, ops>>

\* Trees handed to the transformer: leaves, function calls with up to
\* MaxArgs arguments, and dot nodes nested up to two deep, with the right or
\* the left side possibly missing.
AstLeaves ==
  { Identifier("Patient"), Identifier("name"), Literal("x"), AstNode("Unary"),
    [Identifier("given") EXCEPT !.typeInfo = AstTypeInfo(Str("String"), Bool(FALSE))],
    Undefined }

AstArguments == SeqsUpTo({Identifier("name"), Literal("x"), AstNode("Unary")}, MaxArgs)

AstFunctions == { Function("where", arguments) : arguments \in AstArguments }

AstRights ==
  { Identifier("name"), Literal("x"), AstNode("Unary"), Undefined,
    Function("count", <<>>), Function("join", <<Literal("x"), AstNode("Unary")>>) }

AstDots(lefts) ==
  { Binary(".", left, right) : left \in lefts, right \in AstRights }

AstTrees ==
  AstLeaves \cup AstFunctions \cup {Binary("+", Identifier("name"), Literal("x"))}
    \cup AstDots(AstLeaves \cup AstFunctions)
    \cup AstDots(AstDots(AstLeaves \cup AstFunctions))

CallTransformAstToJsonNode ==
  /\ call.fn = "none"
  /\ \E ast \in AstTrees :
       call' = Call("transformAstToJsonNode", ast, transformAstToJsonNode(ast))
  /\ UNCHANGED <<collectors, now, req, lastOp, returned, ops>>

NextFunctions ==
  \/ CallExtractEvaluationParameters
  \/ CallParseResourceParameter
  \/ CallExtractVariables
  \/ CallNormalizeName
  \/ CallSetParameterValue
  \/ CallTransformAstToJsonNode

SpecFunctions == Init /\ [][NextFunctions]_vars

\* ---------------------------------------------------------------- properties
Last(seq) == seq[Len(seq)]
Front(seq) == SubSeq(seq, 1, Len(seq) - 1)

Done(r) == req[r].pc = "done"
HasContext(r) == req[r].extraction.contextExpression \notin {Undefined, Str("")}
Succeeded(r) == req[r].execution.returned
ResultSet(r) == req[r].execution.contexts

IsParameters(r) ==
  /\ req[r].outcome.kind = "response"
  /\ req[r].outcome.response.body.resourceType = "Parameters"

IsOutcome(r) ==
  /\ req[r].outcome.kind = "response"
  /\ req[r].outcome.response.body.resourceType = "OperationOutcome"

\* The sections of the response with the given name, in response order.
Sections(r, name) ==
  SelectSeq(req[r].outcome.response.body.parameter, LAMBDA p : p.name = name)

ResultSections(r) == Sections(r, "result")

\* The value a context item stands for: the value of a boxed item, the item
\* itself when it is not boxed.
ItemValue(item) ==
  IF item \in {Str("raw")} THEN item ELSE item.value

\* C1: with a context expression yielding N items and every evaluation
\* succeeding, the result set has exactly N entries, the k-th with index k and
\* the unwrapped k-th item as contextValue, in the order yielded.
C1_OneEntryPerItem ==
  \A r \in Reqs :
    (Succeeded(r) /\ HasContext(r)) =>
      /\ Len(ResultSet(r)) = Len(req[r].items)
      /\ \A k \in 1..Len(ResultSet(r)) :
           /\ ResultSet(r)[k].index = k - 1
           /\ ResultSet(r)[k].contextValue = ItemValue(req[r].items[k])

C1_Witness ==
  \E r \in Reqs :
    /\ Succeeded(r) /\ HasContext(r)
    /\ Len(ResultSet(r)) = 2
    /\ req[r].items[1] = Str("raw")
    /\ req[r].items[2] # Str("raw")

\* C2: without a context expression (absent or empty) and a successful
\* evaluation, the result set is one entry: index 0, contextValue the document,
\* no label.
C2_SingleRootEntry ==
  \A r \in Reqs :
    (Succeeded(r) /\ ~HasContext(r)) =>
      /\ Len(ResultSet(r)) = 1
      /\ ResultSet(r)[1].index = 0
      /\ ResultSet(r)[1].contextValue = req[r].extraction.resource
      /\ ResultSet(r)[1].contextLabel = Undefined

C2_Witness ==
  \E r \in Reqs :
    /\ Succeeded(r)
    /\ req[r].extraction.contextExpression = Str("")
    /\ Len(ResultSet(r)) = 1

\* C3: every trace entry in a result entry of a request was recorded by that
\* request's own evaluation for that entry, also with requests interleaved.
C3_NoCrossContamination ==
  \A r \in Reqs :
    \A k \in 1..Len(req[r].contexts) :
      \A i \in 1..Len(req[r].contexts[k].traces) :
        req[r].contexts[k].traces[i].by = <<r, req[r].contexts[k].index>>

\* C4: every begin of a request is matched by exactly one end of the same
\* request on the success and the failure path; a request handled alone leaves
\* the stack as deep as it found it; every evaluation starts on an empty frame.
C4_Balance ==
  \A r \in Reqs :
    /\ req[r].ends <= req[r].begins
    /\ Done(r) => req[r].begins = req[r].ends
    /\ (Done(r) /\ \A q \in Reqs \ {r} : req[q].pc = "idle") => collectors = <<>>

C4_FreshFrame ==
  \A r \in Reqs :
    req'[r].begins = req[r].begins + 1 =>
      /\ collectors' # <<>>
      /\ Last(collectors') = <<>>

C4_FrameBalance == []C4_Balance /\ [][C4_FreshFrame]_vars

C4_Witness ==
  \E r \in Reqs :
    /\ Done(r)
    /\ req[r].failed.step = "item"
    /\ req[r].begins = 2
    /\ req[r].ends = 2

\* The emissions of a request made while it evaluated the main expression for
\* the entry with the given index, in emission order.
EmittedFor(r, index) == SelectSeq(req[r].emitted, LAMBDA e : e.by = <<r, index>>)

\* C5: handled alone, the traces of each result entry are exactly the emissions
\* made during that entry's own evaluation, in emission order.
C5_OwnTracesInOrder ==
  \A r \in Reqs :
    \A k \in 1..Len(req[r].contexts) :
      req[r].contexts[k].traces = EmittedFor(r, req[r].contexts[k].index)

C5_Witness ==
  \E r \in Reqs :
    /\ Succeeded(r)
    /\ Len(ResultSet(r)) = 2
    /\ Len(req[r].emitted) = 2
    /\ req[r].emitted[1].by = <<r, -1>>
    /\ Len(ResultSet(r)[2].traces) = 1
    /\ ResultSet(r)[1].traces = <<>>

\* C6: the collector is a LIFO stack of frames: begin pushes an empty frame;
\* record appends one entry to the top frame only and does nothing when no frame
\* is open; end removes and returns the top frame, and returns an empty sequence
\* and leaves the stack alone when it is empty.
C6_Step ==
  ops' = ops + 1 =>
    /\ lastOp' = "begin" =>
         /\ Len(collectors') = Len(collectors) + 1
         /\ Front(collectors') = collectors
         /\ Last(collectors') = <<>>
    /\ lastOp' = "record" =>
         IF collectors = <<>> THEN collectors' = <<>>
         ELSE /\ Len(collectors') = Len(collectors)
              /\ Front(collectors') = Front(collectors)
              /\ Len(Last(collectors')) = Len(Last(collectors)) + 1
              /\ Front(Last(collectors')) = Last(collectors)
              /\ Last(Last(collectors')).by = <<0, ops>>
    /\ lastOp' = "end" =>
         IF collectors = <<>> THEN collectors' = <<>> /\ returned' = <<>>
         ELSE /\ collectors' = Front(collectors)
              /\ returned' = Last(collectors)

\* Entries of a frame are in the order of the record calls that made them.
InRecordOrder(frame) ==
  \A i, j \in 1..Len(frame) : i < j => frame[i].by[2] < frame[j].by[2]

C6_Order ==
  /\ InRecordOrder(returned)
  /\ \A f \in 1..Len(collectors) : InRecordOrder(collectors[f])

C6_LifoStack == []C6_Order /\ [][C6_Step]_vars

C6_Witness ==
  /\ lastOp = "end"
  /\ Len(returned) = 2
  /\ Len(collectors) = 1

\* C7: within one request the context items are evaluated one after the other
\* in ascending index order: the evaluation in flight is for the item after the
\* entries already completed, and the request has at most one frame open.
C7_Sequential ==
  \A r \in Reqs :
    /\ req[r].begins - req[r].ends \in {0, 1}
    /\ req[r].begins - req[r].ends = 1 <=> req[r].pc \in {"evalItem", "evalRoot"}
    /\ req[r].pc = "evalItem" =>
         /\ req[r].cur = Len(req[r].contexts)
         /\ req[r].cur = req[r].ends
         /\ req[r].cur < Len(req[r].items)
         /\ \A k \in 1..Len(req[r].contexts) : req[r].contexts[k].index = k - 1

C7_Witness ==
  \E r \in Reqs :
    /\ req[r].pc = "evalItem"
    /\ req[r].cur = 1
    /\ Len(req[r].contexts) = 1

\* The single issue of an error outcome.
Issue(r) == req[r].outcome.response.body.issue[1]

\* The evaluations the request had started when it failed.
StartedBefore(step, r) ==
  CASE step = "item" -> req[r].cur + 1
    [] step = "root" -> 1
    [] OTHER -> 0

\* C8: if analyze, the context evaluation or the evaluation for item k throws,
\* the request is aborted: the open frame is closed, no evaluation is started
\* for a later item, and the response is one error outcome with severity
\* 'error', code 'exception' and the underlying message, with no results.
C8_EngineFailureAborts ==
  \A r \in Reqs :
    req[r].failed.step \in {"analyze", "context", "item", "root"} =>
      /\ Done(r)
      /\ ~Succeeded(r)
      /\ req[r].begins = req[r].ends
      /\ req[r].begins = StartedBefore(req[r].failed.step, r)
      /\ IsOutcome(r)
      /\ DOMAIN req[r].outcome.response.body = {"resourceType", "issue"}
      /\ Len(req[r].outcome.response.body.issue) = 1
      /\ Issue(r).severity = "error"
      /\ Issue(r).code = "exception"
      /\ req[r].failed.error.isError =>
           Issue(r).diagnostics \in
             { "Evaluation failed: " \o req[r].failed.error.message,
               "Auto-detection failed: " \o req[r].failed.error.message }

C8_Witness ==
  \E r \in Reqs :
    /\ req[r].failed = Failure("item", Err("engine failure"))
    /\ req[r].cur = 1
    /\ Len(req[r].contexts) = 1
    /\ Len(req[r].items) = 2

\* C9: every request, whatever its body and whichever step fails, ends with
\* exactly one response, a Parameters envelope or an OperationOutcome with one
\* issue carrying severity, code and diagnostics; no exception escapes.
C9_AlwaysOneResponse ==
  \A r \in Reqs :
    /\ req[r].outcome.kind # "exception"
    /\ Done(r) <=> req[r].outcome.kind = "response"
    /\ Done(r) =>
         \/ IsParameters(r)
         \/ /\ IsOutcome(r)
            /\ Len(req[r].outcome.response.body.issue) = 1
            /\ Issue(r).severity \in {"fatal", "error", "warning", "information"}
            /\ Issue(r).code # ""
            /\ Issue(r).diagnostics # ""

C9_Once == \A r \in Reqs : Done(r) => req'[r] = req[r]

C9_ExactlyOneResponse == []C9_AlwaysOneResponse /\ [][C9_Once]_vars

C9_Witness ==
  \E r \in Reqs :
    /\ Done(r)
    /\ req[r].failed.step = "assemble"
    /\ IsOutcome(r)
    /\ Issue(r).code = "exception"

\* C10 as claimed: every evaluation that completes without error hands the
\* assembler at least one entry.
C10_AtLeastOneEntry ==
  \A r \in Reqs : Succeeded(r) => Len(ResultSet(r)) >= 1

\* C10 amended: the result set is empty exactly when a context expression was
\* given and yielded no item; the assembler then emits the single empty result,
\* and otherwise one result per entry.
C10_EmptyOnlyForNoItems ==
  \A r \in Reqs :
    Succeeded(r) =>
      /\ Len(ResultSet(r)) = 0 <=> (HasContext(r) /\ req[r].items = <<>>)
      /\ IsParameters(r) =>
           IF Len(ResultSet(r)) = 0
             THEN ResultSections(r) = <<EmptyResultParameter>>
             ELSE Len(ResultSections(r)) = Len(ResultSet(r))

C10_Witness ==
  \E r \in Reqs :
    /\ Succeeded(r)
    /\ HasContext(r)
    /\ req[r].items = <<>>
    /\ IsParameters(r)

\* The auxiliary inputs kept under a name, in the order kept.
AuxiliaryUnder(additionalInputs, name) ==
  LET groups == SelectSeq(additionalInputs, LAMBDA g : g[1] = name)
  IN IF groups = <<>> THEN <<>> ELSE groups[1][2]

\* C13 as claimed: every parameter of the envelope, recognized or not and
\* every repetition, is kept in the auxiliary inputs under its name in encounter
\* order, and no parameter is rejected.
C13_EveryParameterAuxiliary ==
  call.fn = "extractEvaluationParameters" =>
    /\ call.output.ok
    /\ \A i \in 1..Len(call.input) :
         AuxiliaryUnder(call.output.value.additionalInputs, call.input[i].name) =
           SelectSeq(call.input, LAMBDA p : p.name = call.input[i].name)

\* The string payload of the first extension of a parameter carrying the URL,
\* Undefined when there is no such extension or its payload is no string or empty.
Payload(parameter, url) ==
  LET extensions == IF parameter.extension = Undefined THEN <<>> ELSE parameter.extension.items
      at == { i \in 1..Len(extensions) : extensions[i].url = url }
      first == CHOOSE i \in at : \A j \in at : i <= j
  IN IF at = {} THEN Undefined
     ELSE IF extensions[first].valueString.t = "string" /\ extensions[first].valueString.s # ""
       THEN extensions[first].valueString
     ELSE Undefined

\* C14: the resolver decides in this order: an embedded document wins (inline),
\* also when annotations are present; else a JSON annotation with a string
\* payload is parsed (json-embedded; a parse failure sets parseError to the
\* parser's message and leaves the document absent); else an XML annotation gives
\* xml-embedded with a parseError and no document; else the source is missing.
\* The descriptor always keeps the raw parameter.
C14_ResolverPriority ==
  call.fn = "parseResourceParameter" =>
    LET parameter == call.input
        document == call.output.resource
        descriptor == call.output.descriptor
        json == Payload(parameter, JSON_VALUE_EXTENSION_URL)
        xml == Payload(parameter, XML_VALUE_EXTENSION_URL)
    IN /\ descriptor.parameter = parameter
       /\ CASE parameter.resource # Undefined ->
                 /\ descriptor.source = "inline-resource"
                 /\ document = parameter.resource
                 /\ descriptor.parseError = Undefined
            [] parameter.resource = Undefined /\ json # Undefined ->
                 /\ descriptor.source = "json-extension"
                 /\ descriptor.serializedContent = json
                 /\ IF json.s = JsonPatient
                      THEN document = PatientDoc /\ descriptor.parseError = Undefined
                      ELSE /\ document = Undefined
                           /\ descriptor.parseError = Str("Unexpected end of JSON input")
            [] parameter.resource = Undefined /\ json = Undefined /\ xml # Undefined ->
                 /\ descriptor.source = "xml-extension"
                 /\ document = Undefined
                 /\ descriptor.parseError.t = "string"
                 /\ descriptor.parseError.s # ""
            [] OTHER ->
                 /\ descriptor.source = "missing"
                 /\ document = Undefined
                 /\ descriptor.parseError = Undefined

\* An embedded document together with a JSON and an XML annotation.
C14_Witness ==
  /\ call.fn = "parseResourceParameter"
  /\ call.input.resource = PatientDoc
  /\ Payload(call.input, JSON_VALUE_EXTENSION_URL) = Str(JsonBroken)
  /\ Payload(call.input, XML_VALUE_EXTENSION_URL) # Undefined
  /\ call.output.descriptor.source = "inline-resource"

\* Whether a 'resource' parameter carries a document in any of the three forms.
Located(parameter) ==
  \/ parameter.resource # Undefined
  \/ Payload(parameter, JSON_VALUE_EXTENSION_URL) # Undefined
  \/ Payload(parameter, XML_VALUE_EXTENSION_URL) # Undefined

\* C15 as claimed: after any envelope, the document is set iff the descriptor
\* resolved (source not missing, no parseError); a parseError implies no
\* document; source is missing iff no document could be located.
C15_DocumentIffResolved ==
  (call.fn = "extractEvaluationParameters" /\ call.output.ok) =>
    LET extraction == call.output.value
        descriptor == extraction.resourceDescriptor
        missing == descriptor = Undefined \/ descriptor.source = "missing"
        failed == descriptor # Undefined /\ descriptor.parseError # Undefined
    IN /\ Truthy(extraction.resource) <=> (~missing /\ ~failed)
       /\ failed => ~Truthy(extraction.resource)
       /\ missing <=> \A i \in 1..Len(call.input) :
                        call.input[i].name = "resource" => ~Located(call.input[i])

\* The first value of a sequence that is not absent, Undefined if all are.
FirstPresent(values) ==
  LET present == SelectSeq(values, LAMBDA v : ~Nullish(v))
  IN IF present = <<>> THEN Undefined ELSE present[1]

\* C20 as claimed: the bound value is the first non-absent value among the
\* scalar fields in priority order, else the embedded document; a present value
\* is selected whatever it is, including false, 0 and the empty string.
C20_FirstPresentValue ==
  call.fn = "extractVariables" =>
    /\ call.output.ok
    /\ call.output.value[call.input.name] =
         FirstPresent(<<call.input.valueString, call.input.valueBoolean,
                        call.input.valueInteger, call.input.valueDecimal,
                        call.input.valueDate, call.input.valueTime,
                        call.input.valueDateTime, call.input.resource>>)

\* The name a value part takes from the type name of its value.
TypeNameLowerCased(item) ==
  CASE item.typeInfo.name = Str("String") -> "string"
    [] item.typeInfo.name = Str("code") -> "code"
    [] item.typeInfo.name = Str("string") -> "string"
    [] item.typeInfo.name = Str("HumanName") -> "humanname"

\* The parts of a section are one value part per value, in order.
ValueParts(parts, values) ==
  /\ Len(parts) = Len(values)
  /\ \A i \in 1..Len(values) :
       /\ parts[i] = createResultValuePart(values[i])
       /\ parts[i].name = TypeNameLowerCased(values[i])

\* The section is the 'result' section of the context entry.
ResultSectionOf(section, context) ==
  LET parts == section.part.items
      values == context.expressionResult
      traces == context.traces
  IN /\ section.name = "result"
     /\ section.valueString = context.contextLabel
     /\ Len(parts) = Len(values) + Len(traces)
     /\ ValueParts(SubSeq(parts, 1, Len(values)), values)
     /\ \A j \in 1..Len(traces) :
          LET tracePart == parts[Len(values) + j]
          IN /\ tracePart.name = "trace"
             /\ tracePart.valueString = Str(traces[j].label)
             /\ ValueParts(tracePart.part.items, traces[j].values)

\* C11: after the 'parameters' section the response has one 'result' section
\* per context entry, in entry order (the single empty one when there is no
\* entry); each carries the entry's label when it has one, and its parts are one
\* value part per result value, in result order and named by the lower-cased
\* type name, followed by one 'trace' part per captured trace entry, in capture
\* order, each with the trace label and one value part per recorded value.
C11_ResultSections ==
  \A r \in Reqs :
    IsParameters(r) =>
      LET sections == req[r].outcome.response.body.parameter
          contexts == ResultSet(r)
      IN /\ sections[1].name = "parameters"
         /\ ResultSections(r) = IF contexts = <<>> THEN <<EmptyResultParameter>>
                                ELSE SubSeq(sections, 2, Len(contexts) + 1)
         /\ \A k \in 1..Len(contexts) : ResultSectionOf(sections[k + 1], contexts[k])

C11_Witness ==
  \E r \in Reqs :
    /\ IsParameters(r)
    /\ Len(ResultSet(r)) = 2
    /\ ResultSet(r)[1].contextLabel # Undefined
    /\ Len(ResultSet(r)[2].expressionResult) = 2
    /\ Len(ResultSet(r)[2].traces) = 1
    /\ Len(ResultSections(r)[2].part.items) = 3

\* The parameters of the request envelope, in encounter order.
EnvelopeItems(r) == req[r].input.body.data.parameter.items

Names(parts) == [i \in 1..Len(parts) |-> parts[i].name]

RecognizedNames == <<"expression", "context", "resource", "variables">>

\* The last parameter of the envelope with the name, as a sequence of one, or
\* the empty sequence.
LastNamed(items, name) ==
  LET named == SelectSeq(items, LAMBDA p : p.name = name)
  IN IF named = <<>> THEN <<>> ELSE <<Last(named)>>

\* C12 as claimed: the 'parameters' section lists the evaluator string, the
\* recognized inputs that were present, every auxiliary input in the encounter
\* order of the envelope, the terminology placeholder if a terminology server
\* was given, the serialized tree, expectedReturnType from analysis only if no
\* part of that name was echoed, and one entry per diagnostic.
C12_EchoOrder ==
  \A r \in Reqs :
    IsParameters(r) =>
      LET parts == req[r].outcome.response.body.parameter[1].part.items
          items == EnvelopeItems(r)
          recognized == LastNamed(items, "expression") \o LastNamed(items, "context") \o
                        LastNamed(items, "resource") \o LastNamed(items, "variables")
          auxiliary == SelectSeq(items, LAMBDA p :
                         p.name \notin {"expression", "context", "resource", "variables"})
          echoed == <<parts[1]>> \o recognized \o auxiliary
          terminology == IF \E i \in 1..Len(items) : items[i].name = "terminologyserver"
                           THEN <<"terminologyServerStatus">> ELSE <<>>
          expected == IF req[r].execution.analysis.type # Undefined
                         /\ \A i \in 1..Len(echoed) : echoed[i].name # "expectedReturnType"
                        THEN <<"expectedReturnType">> ELSE <<>>
          diagnostics == [i \in 1..Len(req[r].execution.analysis.diagnostics) |->
                            "analysis-diagnostic"]
      IN /\ parts[1].name = "evaluator"
         /\ parts[1].valueString.t = "string"
         /\ Len(parts) >= Len(echoed)
         /\ SubSeq(parts, 1, Len(echoed)) = echoed
         /\ Names(SubSeq(parts, Len(echoed) + 1, Len(parts))) =
              terminology \o <<"parseDebugTree">> \o expected \o diagnostics

\* What parseRequest makes of the body of the request.
Parsed(r) == parseRequest(req[r].input.body)

Answered(r) == req[r].pc \notin {"idle", "reading"}

ExpressionAbsent(extraction) == extraction.expression = Undefined

ResourceAbsent(extraction) ==
  \/ extraction.resourceDescriptor = Undefined
  \/ extraction.resourceDescriptor.source = "missing"

\* No analyze or evaluate call was made and no trace frame opened.
NoEngineCall(r) == req[r].calls = <<>> /\ req[r].begins = 0

\* C16: a request without expression, or without resource (no 'resource'
\* parameter or descriptor source missing), is answered with an error outcome of
\* code 'required' naming the missing parameter, the expression first; no engine
\* call is made for it and no trace frame is opened.
C16_MissingRequired ==
  \A r \in Reqs :
    (Answered(r) /\ Parsed(r).ok
       /\ (ExpressionAbsent(Parsed(r).value) \/ ResourceAbsent(Parsed(r).value))) =>
      /\ Done(r)
      /\ IsOutcome(r)
      /\ Len(req[r].outcome.response.body.issue) = 1
      /\ Issue(r).severity = "error"
      /\ Issue(r).code = "required"
      /\ Issue(r).diagnostics =
           IF ExpressionAbsent(Parsed(r).value)
             THEN "Missing required parameter: expression"
             ELSE "Missing required parameter: resource"
      /\ NoEngineCall(r)

C16_Witness ==
  \E r \in Reqs :
    /\ Done(r)
    /\ Parsed(r).ok
    /\ ExpressionAbsent(Parsed(r).value)
    /\ ResourceAbsent(Parsed(r).value)
    /\ Issue(r).code = "required"

\* C17: a request with an expression whose resource was located but gave no
\* document, by a JSON parse failure or the unsupported XML encoding, is answered
\* with an error outcome of code 'invalid' whose diagnostic is the resolver's
\* parseError; no engine call is made for it.
C17_UnresolvableResource ==
  \A r \in Reqs :
    (Answered(r) /\ Parsed(r).ok
       /\ ~ExpressionAbsent(Parsed(r).value) /\ ~ResourceAbsent(Parsed(r).value)
       /\ Parsed(r).value.resource = Undefined
       /\ Parsed(r).value.resourceDescriptor.parseError # Undefined) =>
      /\ Done(r)
      /\ IsOutcome(r)
      /\ Len(req[r].outcome.response.body.issue) = 1
      /\ Issue(r).severity = "error"
      /\ Issue(r).code = "invalid"
      /\ Str(Issue(r).diagnostics) = Parsed(r).value.resourceDescriptor.parseError
      /\ NoEngineCall(r)

C17_Witness ==
  \E r \in Reqs :
    /\ Done(r)
    /\ Parsed(r).ok
    /\ Parsed(r).value.resourceDescriptor # Undefined
    /\ Parsed(r).value.resourceDescriptor.source = "json-extension"
    /\ Issue(r).code = "invalid"
    /\ Issue(r).diagnostics = "Unexpected end of JSON input"

\* The evaluate calls of a request, in call order.
EvaluateCalls(r) == SelectSeq(req[r].calls, LAMBDA c : c.fn = "evaluate")

\* The value the i-th evaluate call of a request is about: the document for
\* the context-expression evaluation and the no-context evaluation, the
\* unwrapped item for the evaluation of an item.
ContextOfCall(r, i) ==
  IF HasContext(r) /\ i > 1
    THEN ItemValue(req[r].items[i - 1])
    ELSE req[r].extraction.resource

SystemNames == {"resource", "rootResource", "context"}

\* C18: in every evaluate call the scope is the user's bindings plus resource
\* and rootResource = document plus context = the document or the unwrapped
\* item, and input is the same value as context; a user binding named resource,
\* rootResource or context never replaces the system value, and every other
\* user binding is passed unchanged.
C18_VariableScope ==
  \A r \in Reqs :
    \A i \in 1..Len(EvaluateCalls(r)) :
      LET options == EvaluateCalls(r)[i].options
          user == extractVariables(req[r].extraction.variableParts).value
          document == req[r].extraction.resource
      IN /\ DOMAIN options.variables = (DOMAIN user) \cup SystemNames
         /\ options.variables["resource"] = document
         /\ options.variables["rootResource"] = document
         /\ options.variables["context"] = ContextOfCall(r, i)
         /\ options.input = ContextOfCall(r, i)
         /\ \A n \in (DOMAIN user) \ SystemNames : options.variables[n] = user[n]

C18_Witness ==
  \E r \in Reqs :
    /\ HasContext(r)
    /\ Len(EvaluateCalls(r)) = 3
    /\ req[r].items[2] = Str("raw")
    /\ {"v", "resource", "context"} \subseteq
         DOMAIN extractVariables(req[r].extraction.variableParts).value

IndexSuffix(k) == <<"[0]", "[1]", "[2]", "[3]">>[k + 1]

\* The label the claim gives the entry of the item with index k.
LabelOf(r, item, k) ==
  LET documentType == IF req[r].extraction.resource.resourceType = Undefined
                        THEN "Resource" ELSE req[r].extraction.resource.resourceType.s
      expression == req[r].extraction.contextExpression.s
  IN CASE item = Str("raw") /\ expression = " " -> documentType \o IndexSuffix(k)
       [] item = Str("raw") /\ expression # " " ->
            documentType \o "." \o expression \o IndexSuffix(k)
       [] item # Str("raw") /\ item.typeInfo.path = Str("Patient.name[0]") -> "Patient.name[0]"
       [] OTHER -> item.typeInfo.path.s \o IndexSuffix(k)

\* C19: the label of the entry for item k is the item's structural path,
\* unchanged when it has bracket notation and with [k] appended otherwise; else
\* {documentType}.{contextExpression}[k] with the expression trimmed; else
\* {documentType}[k] when the context expression is blank.
C19_ContextLabels ==
  \A r \in Reqs :
    HasContext(r) =>
      \A k \in 1..Len(req[r].contexts) :
        req[r].contexts[k].contextLabel = Str(LabelOf(r, req[r].items[k], k - 1))

C19_Witness ==
  \E r \in Reqs :
    /\ Succeeded(r)
    /\ Len(ResultSet(r)) = 2
    /\ req[r].items[1] = req[r].items[2]
    /\ ResultSet(r)[1].contextLabel = Str("Patient.name[0]")
    /\ ResultSet(r)[2].contextLabel = Str("Patient.name[1]")

\* The analyze calls of a request.
AnalyzeCalls(r) == SelectSeq(req[r].calls, LAMBDA c : c.fn = "analyze")

\* The request got as far as runEvaluation's analyze call.
Analyzed(r) ==
  \/ req[r].pc \in {"analyzing", "evalContext", "evalItem", "evalRoot"}
  \/ Succeeded(r)
  \/ req[r].failed.step \in {"analyze", "context", "item", "root", "assemble"}

\* C28: a request that passes validation and reaches the evaluation makes
\* exactly one analyze call, on the main expression with only the user's
\* bindings, whatever the number of context items; it is the first engine call,
\* made with no frame of the request open, and if it throws there is no
\* evaluate call and no frame.
C28_SingleAnalysis ==
  \A r \in Reqs :
    /\ Len(AnalyzeCalls(r)) = IF Analyzed(r) THEN 1 ELSE 0
    /\ req[r].calls # <<>> =>
         /\ req[r].calls[1].fn = "analyze"
         /\ req[r].calls[1].expression = req[r].extraction.expression
         /\ req[r].calls[1].options.variables =
              extractVariables(req[r].extraction.variableParts).value
    /\ req[r].pc = "analyzing" => req[r].begins = 0 /\ Len(req[r].calls) = 1
    /\ req[r].failed.step = "analyze" => req[r].begins = 0 /\ Len(req[r].calls) = 1

C28_Witness ==
  \E r \in Reqs :
    /\ Succeeded(r)
    /\ Len(req[r].items) = 2
    /\ Len(req[r].calls) = 4
    /\ Len(AnalyzeCalls(r)) = 1
    /\ "v" \in DOMAIN req[r].calls[1].options.variables

\* The request ends a trace collection in this step.
Ends(r) == req'[r].ends = req[r].ends + 1

\* C29 as claimed: the frame a request's endTraceCollection returns is the
\* frame its own beginTraceCollection pushed, also with requests interleaved, so
\* every trace of the request's own evaluation for an entry is in that entry.
C29_OwnFrame ==
  \A r \in Reqs : Ends(r) => Len(collectors) = req[r].frameAt

C29_Delivered ==
  \A r \in Reqs :
    \A k \in 1..Len(req[r].contexts) :
      \A i \in 1..Len(EmittedFor(r, req[r].contexts[k].index)) :
        \E j \in 1..Len(req[r].contexts[k].traces) :
          req[r].contexts[k].traces[j] = EmittedFor(r, req[r].contexts[k].index)[i]

C29_OwnFrameReturned == [][C29_OwnFrame]_vars /\ []C29_Delivered

\* The requests that are between a beginTraceCollection and its endTraceCollection.
Collecting == { r \in Reqs : req[r].begins > req[r].ends }

InFlight == { r \in Reqs : req[r].pc \notin {"idle", "done"} }

\* C30: with requests interleaved and engine calls failing, the stack is never
\* deeper than the number of requests between a begin and its end, and it is
\* empty whenever no request is in flight.
C30_NoLeakedFrame ==
  /\ Len(collectors) <= Cardinality(Collecting)
  /\ InFlight = {} => collectors = <<>>

C30_Witness ==
  /\ Cardinality(Collecting) = 2
  /\ Len(collectors) = 2
  /\ \E r \in Reqs : req[r].ends = 1

\* The name the specification describes: four hexadecimal digits after \u.
IsHexDigit(c) ==
  c \in {"0", "1", "2", "3", "4", "5", "6", "7", "8", "9",
         "a", "b", "c", "d", "e", "f", "A", "B", "C", "D", "E", "F"}

RECURSIVE Unescaped(_)
Unescaped(chars) ==
  IF chars = <<>> THEN <<>>
  ELSE IF chars[1] # Backslash \/ Len(chars) < 2
    THEN <<Head(chars)>> \o Unescaped(Tail(chars))
  ELSE IF Len(chars) >= 6 /\ chars[2] = "u" /\ \A i \in 3..6 : IsHexDigit(chars[i])
    THEN <<FromCharCode(HexNumber(SubSeq(chars, 3, 6)))>>
           \o Unescaped(SubSeq(chars, 7, Len(chars)))
  ELSE <<CASE chars[2] = "r" -> "CR" [] chars[2] = "n" -> "LF"
           [] chars[2] = "t" -> "TAB" [] chars[2] = "f" -> "FF"
           [] OTHER -> chars[2]>>
         \o Unescaped(SubSeq(chars, 3, Len(chars)))

Wrapped(chars, d) == Len(chars) >= 2 /\ chars[1] = d /\ chars[Len(chars)] = d

\* C21 as claimed: a name in backticks or in single quotes loses its delimiters
\* and has its content unescaped, \u with exactly four hexadecimal digits
\* (0-9, a-f, A-F) giving that code point; any other name is used verbatim.
C21_NameUnescaped ==
  call.fn = "normalizeName" =>
    call.output = IF Wrapped(call.input, Backtick) \/ Wrapped(call.input, Quote)
                  THEN Unescaped(SliceInner(call.input))
                  ELSE call.input

\* A call of the encoder as the service makes it (full data).
Encoded == call.fn = "setParameterValue" /\ call.input.fullData

\* The item has no type descriptor: neither a type name nor a generic type tag.
NoDescriptor(item) ==
  ~Truthy(TypeInfoOf(item).name) /\ ~Truthy(TypeInfoOf(item).type)

\* The extensions of an encoded part with the given url.
Annotations(part, url) ==
  IF Truthy(part.extension)
    THEN SelectSeq(part.extension.items, LAMBDA e : e.url = url)
    ELSE <<>>

\* C22 as claimed: with no type descriptor a boolean sets only the boolean
\* field, a whole number the integer field, any other number the decimal field
\* and a string the string field, each with the value unchanged.
C22_StructuralInference ==
  (Encoded /\ Truthy(call.input.item) /\ NoDescriptor(call.input.item)
     /\ ValueOf(call.input.item).t \in {"boolean", "number", "string"}
     /\ ~NumberIsNaN(ValueOf(call.input.item))) =>
    LET value == ValueOf(call.input.item)
    IN call.output.once.fields =
         <<[field |-> CASE value.t = "boolean" -> "valueBoolean"
                        [] value.t = "string" -> "valueString"
                        [] NumberIsInteger(value) -> "valueInteger"
                        [] OTHER -> "valueDecimal",
            value |-> value]>>

\* The item's dataType is not one the encoder recognizes, and the item is not a
\* descriptor-less boolean, number or string (which structural inference takes).
Unrecognized(item) ==
  /\ Truthy(item)
  /\ ~IsRecognized(LowerCase(DataTypeOf(item).s))
  /\ ~(NoDescriptor(item) /\ ValueOf(item).t \in {"boolean", "number", "string"})

\* C23 as claimed: a value whose dataType (type name, else type tag, else
\* 'Any') is not recognized gets no value field and exactly one embedded-JSON
\* annotation whose text parses back to the raw value; the structural-path
\* annotation, if there is one, is kept alongside.
C23_JsonFallback ==
  (Encoded /\ Unrecognized(call.input.item)) =>
    LET part == call.output.once
        json == Annotations(part, JSON_VALUE_EXTENSION_URL)
        path == Annotations(part, RESOURCE_PATH_EXTENSION_URL)
    IN /\ part.fields = <<>>
       /\ Len(json) = 1
       /\ IsString(json[1].valueString)
       /\ json[1].valueString.of = ValueOf(call.input.item)
       /\ IF Truthy(TypeInfoOf(call.input.item).path)
            THEN path = <<Ext(RESOURCE_PATH_EXTENSION_URL, TypeInfoOf(call.input.item).path)>>
            ELSE path = <<>>

\* C24 as claimed: encoding the same value into the same parameter a second
\* time leaves the parameter as the first encoding left it.
C24_Idempotent ==
  Encoded => call.output.twice = call.output.once

\* The recognized scalar types.
ScalarTypes ==
  {"string", "system.string", "boolean", "integer", "decimal", "date", "datetime",
   "time", "instant", "code", "base64binary", "canonical", "id", "markdown", "oid",
   "positiveint", "unsignedint", "uri", "url", "uuid"}

\* The wire field named after a scalar type.
WireField(type) ==
  CASE type \in {"string", "system.string"} -> "valueString"
    [] type = "boolean" -> "valueBoolean"
    [] type = "integer" -> "valueInteger"
    [] type = "decimal" -> "valueDecimal"
    [] type = "date" -> "valueDate"
    [] type = "datetime" -> "valueDateTime"
    [] type = "time" -> "valueTime"
    [] type = "instant" -> "valueInstant"
    [] type = "code" -> "valueCode"
    [] type = "id" -> "valueId"
    [] type = "uri" -> "valueUri"
    [] type = "url" -> "valueUrl"
    [] type = "positiveint" -> "valuePositiveInt"
    [] type = "unsignedint" -> "valueUnsignedInt"

ScalarTyped(item) ==
  Truthy(item) /\ ~NoDescriptor(item) /\ LowerCase(DataTypeOf(item).s) \in ScalarTypes

\* C25 as claimed: a value of a recognized scalar type sets exactly the field
\* named after the type, and the field reads back as the original value.
C25_RoundTrip ==
  (Encoded /\ ScalarTyped(call.input.item)) =>
    call.output.once.fields =
      <<[field |-> WireField(LowerCase(DataTypeOf(call.input.item).s)),
         value |-> ValueOf(call.input.item)]>>

\* The value is a number of the numeric type: whole for the integer types.
NumberOfType(type, value) ==
  /\ value.t = "number" /\ ~NumberIsNaN(value)
  /\ type # "decimal" => NumberIsInteger(value)

\* C25, amended: a value of a recognized scalar type sets exactly the field
\* named after the type; the field reads back as the original value, except
\* that for integer, positiveInt, unsignedInt and decimal the field holds the
\* number parsed from the value, which is the original only when that is a
\* number of the type.
C25_RoundTripParsed ==
  (Encoded /\ ScalarTyped(call.input.item)) =>
    LET type == LowerCase(DataTypeOf(call.input.item).s)
        value == ValueOf(call.input.item)
        fields == call.output.once.fields
    IN /\ Len(fields) = 1
       /\ fields[1].field = WireField(type)
       /\ IF type \in {"integer", "positiveint", "unsignedint", "decimal"}
            THEN /\ fields[1].value.t = "number"
                 /\ NumberOfType(type, value) => fields[1].value = value
                 /\ value = Str("12") => fields[1].value = Num(12)
            ELSE fields[1].value = value

C25_Witness ==
  /\ Encoded
  /\ call.input.item = BoxedAs(Str("female"), Str("String"), Undefined, Undefined)
  /\ call.output.once.fields = <<[field |-> "valueString", value |-> Str("female")]>>

\* The kind, the arguments and, for a ChildExpression, the name of a node.
RECURSIVE ShapeOf(_)
ShapeOf(node) ==
  IF node = Null THEN Null
  ELSE [t |-> "object", kind |-> node.ExpressionType,
        name |-> IF node.ExpressionType = "ChildExpression" THEN node.Name ELSE Undefined,
        args |-> IF "Arguments" \in DOMAIN node
                   THEN [i \in 1..Len(node.Arguments.items) |-> ShapeOf(node.Arguments.items[i])]
                   ELSE <<>>]

Shape(kind, name, args) ==
  [t |-> "object", kind |-> kind, name |-> name,
   args |-> SelectSeq(args, LAMBDA a : a # Null)]

\* The mapping as the specification gives it.
RECURSIVE Claimed(_)
Claimed(ast) ==
  IF ~Truthy(ast) THEN Null
  ELSE IF NodeType(ast) = "Binary" /\ ast.operator = Str(".")
    THEN IF NodeType(ast.right) = "Function"
           THEN Shape("FunctionCallExpression", Undefined,
                      <<Claimed(ast.left)>> \o
                      [i \in 1..Len(ast.right.arguments.items) |->
                         Claimed(ast.right.arguments.items[i])])
           ELSE Shape("ChildExpression",
                      IF NodeType(ast.right) = "Identifier" THEN ast.right.name ELSE Str(""),
                      <<Claimed(ast.left)>>)
  ELSE IF NodeType(ast) = "Identifier" THEN Shape("AxisExpression", Undefined, <<>>)
  ELSE IF NodeType(ast) = "Literal" THEN Shape("ConstantExpression", Undefined, <<>>)
  ELSE Null

\* C26 as claimed: a dot node with a function call on the right becomes a
\* FunctionCall node whose arguments are the transformed left side followed by
\* the transformed declared arguments; any other dot node a ChildAccess node
\* named by the right-side identifier with the transformed left side as its
\* argument; an identifier an AxisAccess node; a literal a Constant node; any
\* other node yields null, and null children are left out of argument lists.
C26_NodeMapping ==
  call.fn = "transformAstToJsonNode" =>
    /\ call.output.ok
    /\ ShapeOf(call.output.value) = Claimed(call.input)

\* C27 as claimed: the transformer never throws, so a request whose evaluation
\* completed is never answered with an error because of the tree.
C27_TransformTotal ==
  \A r \in Reqs :
    (Done(r) /\ Succeeded(r)) => IsParameters(r)

====
